---- MODULE Spec2Model ----
(***************************************************************************)
(* Kiro: an Anthropic-compatible proxy in front of AWS CodeWhisperer.      *)
(*                                                                         *)
(* The module holds one state machine per subsystem, each with its own     *)
(* specification over the shared variable list:                            *)
(*   SpecToken   token manager (server/token_cache.go, AuthMiddleware,     *)
(*               the 403 path of handleCodeWhispererError)                 *)
(*   SpecCache   prompt cache (package cache)                              *)
(*   SpecParser  AWS EventStream frame codec (RobustEventStreamParser)     *)
(*   SpecBuild   request translator (BuildCodeWhispererRequest)            *)
(*   SpecStream  streaming handler and SSE re-emitter                      *)
(*   SpecSchema  tool schema cleaning (cleanAndValidateToolParameters)     *)
(*   SpecRewriter  response writer adapter (ResponseRewriter)              *)
(*   SpecParse   credential classification (ParseToken)                    *)
(*   SpecTrigger  chat trigger type (determineChatTriggerType)             *)
(*   SpecEstimator  token estimator (NewTokenEstimator, countTokens)       *)
(***************************************************************************)
EXTENDS Integers, Sequences, FiniteSets, TLC

(***************************************************************************)
(* Bounds of the model                                                     *)
(***************************************************************************)
\* messages of a request given to BuildCodeWhispererRequest
MaxMsgs == 3
\* upstream events decoded during one streaming response
MaxFrames == 5
\* frames and fragments an upstream byte string is made of
MaxPieces == 2
\* ParseStream calls that are counted
MaxChunks == 3
\* concurrent requests running ProcessRequest
NumWorkers == 2
\* content blocks (system prompts and message contents) of one request
MaxBlocks == 1
\* the last value of the wall clock, in units of five minutes
MaxNow == 3
\* concurrent HTTP requests of the token-manager model
NumRequests == 2
\* access tokens the refresh endpoints hand out in one run
MaxIssued == 2
\* ticks of the 45-minute refresher
MaxTicks == 1
\* refresh calls counted per credential before the count saturates
MaxCalls == 2
\* property keys per generated tool schema
MaxProperties == 2
\* calls of ResponseRewriter.Write and of ResponseRewriter.Flush
MaxWrites == 3

MaxFlushes == 2
\* characters of a credential given to ParseToken
MaxTokenLen == 5

VARIABLES
    \* ---- token manager ----
    tokenMap,      \* sha256(credential) -> pointer to a TokenCache
    heap,          \* pointer -> the TokenCache object it points to
    cached,        \* request -> the pointer its lookup read (0: none)
    pc,            \* request -> position in AuthMiddleware / handler
    cred,          \* request -> credential string it presented
    accessToken,   \* request -> access token GetOrRefreshToken returned
    exchanged,     \* request -> token its own refresh exchange returned (0: none)
    response,      \* request -> HTTP status written (0: none yet)
    issued,        \* access tokens handed out so far by the refresh endpoints
    tick,          \* refresher ticks so far (the 45-minute windows)
    calls,         \* credential hash -> refresh calls in this window since the last 403
    rpc,           \* position of the refresher goroutine
    tokens,        \* the refresher's snapshot
    todo,          \* snapshot hashes the refresher has not visited yet
    cur,           \* the hash the refresher is working on
    newToken,      \* result of the refresher's call (0: error)
    invalidated,   \* hashes a 403 invalidated, with no lookup started since
    revoked,       \* access tokens that were cached when a 403 invalidated them
    headers,       \* per request: the x-api-key and Authorization headers
    refreshCall    \* the refresh-endpoint call the refresher has in flight

tokenVars == << tokenMap, heap, cached, pc, cred, accessToken, exchanged, response,
                issued, tick, calls, rpc, tokens, todo, cur, newToken,
                invalidated, revoked, headers, refreshCall >>

VARIABLES
    \* ---- prompt cache ----
    globalCache,   \* "nil" until InitGlobalCache, then "set"
    entries,       \* PromptCache.entries: hash -> pointer to a CacheEntry
    objects,       \* pointer -> the CacheEntry object it points to
    now,           \* the wall clock, in units of five minutes
    wpc,           \* worker -> position in ProcessRequest / processContentBlock / Get
    blocks,        \* worker -> content blocks of its request not processed yet
    entry,         \* worker -> the pointer Get read (0: none)
    result,        \* worker -> the CacheResult it is accumulating
    marked         \* whether a request with an ephemeral block was ever processed

cacheVars == << globalCache, entries, objects, now, wpc, blocks, entry, result, marked >>

VARIABLES
    \* ---- EventStream parser ----
    input,         \* the byte string the upstream body delivers
    fed,           \* how many of its bytes ParseStream has been given
    chunks,        \* in how many calls (counted up to MaxChunks)
    buffer,        \* RobustEventStreamParser.buffer
    errorCount,    \* RobustEventStreamParser.errorCount
    maxErrors,     \* RobustEventStreamParser.maxErrors
    out,           \* the messages ParseStream returned, call after call
    lastError,     \* whether the last ParseStream call returned an error
    errorsReturned \* the ParseStream calls that returned an error (capped)

parserVars == << input, fed, chunks, buffer, errorCount, maxErrors, out, lastError,
                 errorsReturned >>

VARIABLES
    \* ---- request translator ----
    anthropicReq,  \* the request given to BuildCodeWhispererRequest
    bpc,           \* position in BuildCodeWhispererRequest
    idx,           \* the loop index i of the history loop
    userMessagesBuffer,  \* consecutive user messages not yet paired
    history,       \* the history built so far
    cwReq          \* the current message of the request being built

buildVars == << anthropicReq, bpc, idx, userMessagesBuffer, history, cwReq >>

VARIABLES
    \* ---- streaming handler ----
    spos,          \* position in handleGenericStreamRequest
    frames,        \* the upstream events decoded and handled so far
    sent,          \* the SSE events written to the client
    blockStates,   \* the block map: entry i + 1 is the state of block index i
    activeTextIndex,  \* index of the open text block, -1 if none
    pingSent,      \* whether ping has been emitted
    reqStream,      \* whether the request asked for a streaming response
    httpResponse,  \* the JSON response written with c.JSON, if any
    responses,     \* every response written to the client with c.JSON, in order
    stopReason,    \* the stop reason reported to the client, "" if none
    maxTokensReported,  \* whether the upstream has reported max_tokens
    execOutcome    \* what executeCodeWhispererRequest met

handlerVars ==
    << reqStream, httpResponse, responses, stopReason, maxTokensReported,
       execOutcome >>

streamVars ==
    << spos, frames, sent, blockStates, activeTextIndex, pingSent, handlerVars >>

VARIABLES
    \* ---- tool schema cleaning ----
    toolParams,    \* the schema given to cleanAndValidateToolParameters
    cleanResult,   \* what the call returned
    cleanPc        \* "call" before the call, "done" after it

schemaVars == << toolParams, cleanResult, cleanPc >>

VARIABLES
    \* ---- response writer adapter ----
    isStreaming,   \* ResponseRewriter.isStreaming
    rwBody,        \* ResponseRewriter.body
    contentType,   \* the Content-Type header of the wrapped writer
    written,       \* the bytes passed to the wrapped writer
    writes,        \* the calls of Write so far
    flushes,       \* the calls of Flush so far
    wrote,         \* the chunk and the result of the last call of Write
    given          \* the bytes passed to Write so far, call after call

rewriterVars ==
    << isStreaming, rwBody, contentType, written, writes, flushes, wrote, given >>

VARIABLES
    \* ---- ParseToken ----
    tokenText,     \* the credential given to ParseToken
    parsed         \* what ParseToken returned for it

parseVars == << tokenText, parsed >>

VARIABLES
    \* ---- chat trigger type ----
    triggerReq,    \* the tools and the tool_choice of the request given to
                   \* determineChatTriggerType
    chatTriggerType  \* cwReq.ConversationState.ChatTriggerType, "" before the call

triggerVars == << triggerReq, chatTriggerType >>

VARIABLES
    \* ---- token estimator ----
    initOnce,      \* whether getClaudeTokenizer has run its initialisation
    initErr,       \* the error the initialisation left, FALSE if none
    estText,       \* the text of the request being counted
    estPc,         \* position of the request: "new", "count", "answered", "panicked"
    tokenCount     \* what countTokens returned, -1 before

estimatorVars == << initOnce, initErr, estText, estPc, tokenCount >>

nonTokenVars ==
    << cacheVars, parserVars, buildVars, streamVars, schemaVars,
       rewriterVars, parseVars, triggerVars, estimatorVars >>

nonCacheVars ==
    << tokenVars, parserVars, buildVars, streamVars, schemaVars,
       rewriterVars, parseVars, triggerVars, estimatorVars >>

nonParserVars ==
    << tokenVars, cacheVars, buildVars, streamVars, schemaVars,
       rewriterVars, parseVars, triggerVars, estimatorVars >>

nonBuildVars ==
    << tokenVars, cacheVars, parserVars, streamVars, schemaVars,
       rewriterVars, parseVars, triggerVars, estimatorVars >>

nonStreamVars ==
    << tokenVars, cacheVars, parserVars, buildVars, schemaVars,
       rewriterVars, parseVars, triggerVars, estimatorVars >>

nonSchemaVars ==
    << tokenVars, cacheVars, parserVars, buildVars, streamVars,
       rewriterVars, parseVars, triggerVars, estimatorVars >>

nonRewriterVars ==
    << tokenVars, cacheVars, parserVars, buildVars, streamVars,
       schemaVars, parseVars, triggerVars, estimatorVars >>

nonParseVars ==
    << tokenVars, cacheVars, parserVars, buildVars, streamVars,
       schemaVars, rewriterVars, triggerVars, estimatorVars >>

nonTriggerVars ==
    << tokenVars, cacheVars, parserVars, buildVars, streamVars,
       schemaVars, rewriterVars, parseVars, estimatorVars >>

nonEstimatorVars ==
    << tokenVars, cacheVars, parserVars, buildVars, streamVars,
       schemaVars, rewriterVars, parseVars, triggerVars >>

vars ==
    << tokenVars, cacheVars, parserVars, buildVars, streamVars,
       schemaVars, rewriterVars, parseVars, triggerVars, estimatorVars >>

(***************************************************************************)
(* Strings are sequences of one-character strings, so that splitting and   *)
(* prefixes are computed and not assumed.                                  *)
(***************************************************************************)
IndexOf(s, ch) ==
    IF \E i \in 1..Len(s) : s[i] = ch
    THEN CHOOSE i \in 1..Len(s) : s[i] = ch /\ \A j \in 1..(i-1) : s[j] # ch
    ELSE 0

\* strings.SplitN(s, ":", 3)
SplitN3(s) ==
    LET i == IndexOf(s, ":") IN
    IF i = 0 THEN << s >>
    ELSE LET rest == SubSeq(s, i+1, Len(s))
             j == IndexOf(rest, ":") IN
         IF j = 0 THEN << SubSeq(s, 1, i-1), rest >>
         ELSE << SubSeq(s, 1, i-1), SubSeq(rest, 1, j-1), SubSeq(rest, j+1, Len(rest)) >>

(***************************************************************************)
(* Token manager                                                           *)
(***************************************************************************)
Requests == 1..NumRequests

\* credentials a client may present: a Kiro refresh token and an AmazonQ triple
Credentials == { << "k" >>, << "a", ":", "s", ":", "r" >> }

NoToken == << >>

\* header values a client may send: an absent header reads as the empty string
XApiKeys == { << >>, << "k" >> }

Bearer == << "Bearer " >>

Authorizations == { << >>, Bearer \o << "a", ":", "s", ":", "r" >>,
                    << "Basic " >> \o << "k" >> }

NoHeaders == [xApiKey |-> << >>, authorization |-> << >>]

\* strings.HasPrefix / strings.TrimPrefix
HasPrefix(str, prefix) ==
    Len(str) >= Len(prefix) /\ SubSeq(str, 1, Len(prefix)) = prefix

TrimPrefix(str, prefix) ==
    IF HasPrefix(str, prefix) THEN SubSeq(str, Len(prefix) + 1, Len(str)) ELSE str

\* the token AuthMiddleware takes from the request's headers
HeaderToken(h) ==
    IF h.xApiKey # << >> THEN h.xApiKey
    ELSE IF HasPrefix(h.authorization, Bearer)
         THEN TrimPrefix(h.authorization, Bearer)
         ELSE << >>

\* sha256Hash: collision-free on the credentials of the model
sha256Hash(text) == << "sha256", text >>

Hashes == { sha256Hash(c) : c \in Credentials }

\* A variant that also wants a client secret.
ParseToken_SecretRequired(token) ==
    LET parts == SplitN3(token) IN
    IF Len(parts) = 3 /\ parts[1] # << >> /\ parts[2] # << >> /\ parts[3] # << >>
    THEN [tokenType |-> "AmazonQ", clientID |-> parts[1],
          clientSecret |-> parts[2], refreshToken |-> parts[3]]
    ELSE [tokenType |-> "Kiro", clientID |-> << >>,
          clientSecret |-> << >>, refreshToken |-> token]

ParseToken(token) ==
    LET parts == SplitN3(token) IN
    IF Len(parts) = 3 /\ parts[1] # << >> /\ parts[3] # << >>
    THEN [tokenType |-> "AmazonQ", clientID |-> parts[1],
          clientSecret |-> parts[2], refreshToken |-> parts[3]]
    ELSE [tokenType |-> "Kiro", clientID |-> << >>,
          clientSecret |-> << >>, refreshToken |-> token]

\* ---- ParseToken applied to the strings a client may send ----
TokenTexts == UNION { [1..n -> { "a", "b", ":" }] : n \in 0..MaxTokenLen }

NotParsed == [tokenType |-> "", clientID |-> << >>,
              clientSecret |-> << >>, refreshToken |-> << >>]

ParseIdle == tokenText = << >> /\ parsed = NotParsed

ParseInit == tokenText \in TokenTexts /\ parsed = NotParsed

\* one call of ParseToken
ParseCall ==
    /\ parsed = NotParsed
    /\ parsed' = ParseToken(tokenText)
    /\ UNCHANGED << tokenText, nonParseVars >>

ParseNext == ParseCall

\* delete(tokenMap, hash)
MapDelete(m, h) == [k \in DOMAIN m \ {h} |-> m[k]]

\* tokenMap[hash] = entry
MapPut(m, h, e) == [k \in DOMAIN m \cup {h} |-> IF k = h THEN e ELSE m[k]]

EmptyMap == [k \in {} |-> 0]

\* a call of a refresh endpoint: RefreshAmazonQToken(clientID, clientSecret,
\* refreshToken) or RefreshKiroToken(refreshToken)
Call(endpoint, clientID, clientSecret, refreshToken) ==
    [endpoint |-> endpoint, clientID |-> clientID,
     clientSecret |-> clientSecret, refreshToken |-> refreshToken]

NoCall == Call("", << >>, << >>, << >>)

TokenInit ==
    /\ tokenMap = EmptyMap
    /\ heap = EmptyMap
    /\ cached = [r \in Requests |-> 0]
    /\ pc = [r \in Requests |-> "idle"]
    /\ cred = [r \in Requests |-> NoToken]
    /\ accessToken = [r \in Requests |-> 0]
    /\ exchanged = [r \in Requests |-> 0]
    /\ response = [r \in Requests |-> 0]
    /\ issued = 0
    /\ tick = 0
    /\ calls = [h \in Hashes |-> 0]
    /\ rpc = "idle"
    /\ tokens = EmptyMap
    /\ todo = {}
    /\ cur = NoToken
    /\ newToken = 0
    /\ invalidated = {}
    /\ revoked = {}
    /\ headers = [r \in Requests |-> NoHeaders]
    /\ refreshCall = NoCall

refresherVars == << tick, rpc, tokens, todo, cur, newToken, refreshCall >>

\* AuthMiddleware, up to the call of GetOrRefreshToken: a request arrives with
\* its x-api-key and Authorization headers; without a token it is answered
\* 401 authentication_error and aborted
AuthMiddleware(r, h) ==
    /\ pc[r] = "idle"
    /\ headers' = [headers EXCEPT ![r] = h]
    /\ LET token == HeaderToken(h) IN
       /\ cred' = [cred EXCEPT ![r] = token]
       /\ IF token = NoToken
          THEN /\ response' = [response EXCEPT ![r] = 401]
               /\ pc' = [pc EXCEPT ![r] = "done"]
          ELSE /\ response' = [response EXCEPT ![r] = 0]
               /\ pc' = [pc EXCEPT ![r] = "check"]
    /\ UNCHANGED << accessToken, exchanged >>
    /\ UNCHANGED << tokenMap, heap, cached, issued, calls, invalidated, revoked >>
    /\ UNCHANGED refresherVars
    /\ UNCHANGED nonTokenVars

\* GetOrRefreshToken, the cache lookup under the read lock: it reads the
\* pointer stored under the credential's hash
GetOrRefreshToken_Check_NoLookup(r) ==
    /\ pc[r] = "check"
    /\ pc' = [pc EXCEPT ![r] = "exchange"]
    /\ invalidated' = invalidated \ {sha256Hash(cred[r])}
    /\ UNCHANGED << tokenMap, heap, cached, cred, accessToken, exchanged, response,
                    issued, calls, revoked >>
    /\ UNCHANGED headers
    /\ UNCHANGED refresherVars
    /\ UNCHANGED nonTokenVars

GetOrRefreshToken_Check(r) ==
    /\ pc[r] = "check"
    /\ IF sha256Hash(cred[r]) \in DOMAIN tokenMap
       THEN /\ cached' = [cached EXCEPT ![r] = tokenMap[sha256Hash(cred[r])]]
            /\ pc' = [pc EXCEPT ![r] = "return"]
       ELSE /\ pc' = [pc EXCEPT ![r] = "exchange"]
            /\ UNCHANGED cached
    /\ invalidated' = invalidated \ {sha256Hash(cred[r])}
    /\ UNCHANGED << tokenMap, heap, cred, accessToken, exchanged, response,
                    issued, calls, revoked >>
    /\ UNCHANGED headers
    /\ UNCHANGED refresherVars
    /\ UNCHANGED nonTokenVars

\* GetOrRefreshToken, the cache hit: cached.AccessToken is read after the read
\* lock is released, so the read races with the refresher's write and yields
\* the token the object holds when the read happens
GetOrRefreshToken_Return(r) ==
    /\ pc[r] = "return"
    /\ accessToken' = [accessToken EXCEPT ![r] = heap[cached[r]].AccessToken]
    /\ cached' = [cached EXCEPT ![r] = 0]
    /\ pc' = [pc EXCEPT ![r] = "handler"]
    /\ UNCHANGED << tokenMap, heap, cred, exchanged, response, issued, calls,
                    invalidated, revoked >>
    /\ UNCHANGED headers
    /\ UNCHANGED refresherVars
    /\ UNCHANGED nonTokenVars

\* GetOrRefreshToken, the call of the refresh endpoint (no lock held); on an
\* error AuthMiddleware answers 401 and aborts
GetOrRefreshToken_Exchange(r, ok) ==
    /\ pc[r] = "exchange"
    /\ issued < MaxIssued
    /\ calls[sha256Hash(cred[r])] < MaxCalls
    /\ calls' = [calls EXCEPT ![sha256Hash(cred[r])] = @ + 1]
    /\ IF ok
       THEN /\ issued' = issued + 1
            /\ exchanged' = [exchanged EXCEPT ![r] = issued + 1]
            /\ pc' = [pc EXCEPT ![r] = "store"]
            /\ UNCHANGED response
       ELSE /\ response' = [response EXCEPT ![r] = 401]
            /\ pc' = [pc EXCEPT ![r] = "done"]
            /\ UNCHANGED << issued, exchanged >>
    /\ UNCHANGED << tokenMap, heap, cached, cred, accessToken, invalidated,
                    revoked >>
    /\ UNCHANGED headers
    /\ UNCHANGED refresherVars
    /\ UNCHANGED nonTokenVars

\* the entry GetOrRefreshToken caches, and the key it caches it under
NewTokenCache_BadKey(token, access, at) ==
    LET p == ParseToken(token) IN
    [key |-> sha256Hash(p.refreshToken),
     entry |-> [AccessToken |-> access, RefreshToken |-> p.refreshToken,
                LastRefresh |-> at, TokenType |-> p.tokenType,
                ClientID |-> p.clientID, ClientSecret |-> p.clientSecret]]

NewTokenCache(token, access, at) ==
    LET p == ParseToken(token) IN
    [key |-> sha256Hash(token),
     entry |-> [AccessToken |-> access, RefreshToken |-> p.refreshToken,
                LastRefresh |-> at, TokenType |-> p.tokenType,
                ClientID |-> p.clientID, ClientSecret |-> p.clientSecret]]

\* GetOrRefreshToken, the store under the write lock, and the return; the new
\* object's pointer is named after the token it is created with
GetOrRefreshToken_Store(r) ==
    /\ pc[r] = "store"
    /\ LET n == NewTokenCache(cred[r], exchanged[r], tick) IN
       /\ heap' = MapPut(heap, exchanged[r], n.entry)
       /\ tokenMap' = MapPut(tokenMap, n.key, exchanged[r])
    /\ accessToken' = [accessToken EXCEPT ![r] = exchanged[r]]
    /\ exchanged' = [exchanged EXCEPT ![r] = 0]
    /\ pc' = [pc EXCEPT ![r] = "handler"]
    /\ UNCHANGED << cached, cred, response, issued, calls, invalidated, revoked >>
    /\ UNCHANGED headers
    /\ UNCHANGED refresherVars
    /\ UNCHANGED nonTokenVars

\* InvalidateToken
InvalidateToken_NoDelete(m, token) == m

InvalidateToken(m, token) == MapDelete(m, sha256Hash(token))

\* the status the client gets for an upstream status: the stream handler
\* passes the upstream status on, the non-stream path answers 403 for a 403
\* and 500 for any other failure
UpstreamResponse(status, isStream) ==
    IF status = 200 \/ status = 403 \/ isStream THEN status ELSE 500

\* the route handler's upstream call and handleCodeWhispererError: a 403
\* invalidates the credential's cache entry, in streaming mode as well
Upstream(r, status, isStream) ==
    /\ pc[r] = "handler"
    /\ LET tokenHash == sha256Hash(cred[r]) IN
       IF status = 403
       THEN /\ tokenMap' = InvalidateToken(tokenMap, cred[r])
            /\ calls' = [calls EXCEPT ![tokenHash] = 0]
            /\ invalidated' = invalidated \cup {tokenHash}
            /\ revoked' = revoked \cup
                  (IF tokenHash \in DOMAIN tokenMap
                   THEN {heap[tokenMap[tokenHash]].AccessToken} ELSE {})
       ELSE UNCHANGED << tokenMap, calls, invalidated, revoked >>
    /\ response' = [response EXCEPT ![r] = UpstreamResponse(status, isStream)]
    /\ pc' = [pc EXCEPT ![r] = "done"]
    /\ UNCHANGED << heap, cached, cred, accessToken, exchanged, issued >>
    /\ UNCHANGED headers
    /\ UNCHANGED refresherVars
    /\ UNCHANGED nonTokenVars

\* the connection is closed; the goroutine serves the next request
Finish(r) ==
    /\ pc[r] = "done"
    /\ pc' = [pc EXCEPT ![r] = "idle"]
    /\ cred' = [cred EXCEPT ![r] = NoToken]
    /\ accessToken' = [accessToken EXCEPT ![r] = 0]
    /\ exchanged' = [exchanged EXCEPT ![r] = 0]
    /\ response' = [response EXCEPT ![r] = 0]
    /\ headers' = [headers EXCEPT ![r] = NoHeaders]
    /\ UNCHANGED << tokenMap, heap, cached, issued, calls, invalidated, revoked >>
    /\ UNCHANGED refresherVars
    /\ UNCHANGED nonTokenVars

requestVars == << cached, pc, cred, accessToken, exchanged, response, headers >>

\* StartTokenRefresher's ticker fires; RefreshAllTokens reads the entry count
RefreshAllTokens_Count ==
    /\ rpc = "idle"
    /\ tick < MaxTicks
    /\ tick' = tick + 1
    /\ calls' = [h \in Hashes |-> 0]
    /\ rpc' = IF Cardinality(DOMAIN tokenMap) = 0 THEN "idle" ELSE "snapshot"
    /\ UNCHANGED << tokenMap, heap, issued, tokens, todo, cur, newToken,
                    invalidated, revoked, refreshCall >>
    /\ UNCHANGED requestVars
    /\ UNCHANGED nonTokenVars

\* RefreshAllTokens copies the map under the read lock
RefreshAllTokens_Snapshot ==
    /\ rpc = "snapshot"
    /\ tokens' = tokenMap
    /\ todo' = DOMAIN tokenMap
    /\ rpc' = IF DOMAIN tokenMap = {} THEN "idle" ELSE "loop"
    /\ UNCHANGED << tokenMap, heap, issued, calls, tick, cur, newToken,
                    invalidated, revoked, refreshCall >>
    /\ UNCHANGED requestVars
    /\ UNCHANGED nonTokenVars

\* RefreshAllTokens: the endpoint called for a snapshot entry, and its arguments
RefreshCallFor_AlwaysKiro(cache) ==
    Call("Kiro", << >>, << >>, cache.RefreshToken)

RefreshCallFor(cache) ==
    IF cache.TokenType = "AmazonQ"
    THEN Call("AmazonQ", cache.ClientID, cache.ClientSecret, cache.RefreshToken)
    ELSE Call("Kiro", << >>, << >>, cache.RefreshToken)

\* RefreshAllTokens calls the refresh endpoint for one snapshot entry
RefreshAllTokens_Call(hash, ok) ==
    /\ rpc = "loop"
    /\ hash \in todo
    /\ refreshCall' = RefreshCallFor(heap[tokens[hash]])
    /\ issued < MaxIssued
    /\ calls[hash] < MaxCalls
    /\ calls' = [calls EXCEPT ![hash] = @ + 1]
    /\ cur' = hash
    /\ IF ok
       THEN /\ issued' = issued + 1
            /\ newToken' = issued + 1
       ELSE /\ newToken' = 0
            /\ UNCHANGED issued
    /\ rpc' = "apply"
    /\ UNCHANGED << tokenMap, heap, tick, tokens, todo, invalidated, revoked >>
    /\ UNCHANGED requestVars
    /\ UNCHANGED nonTokenVars

\* what RefreshAllTokens does with the result of one call (new = 0: the call
\* failed): a failure deletes the entry, a success writes the token into the
\* object the map holds now, if it holds one
ApplyRefresh(m, hp, hash, new, at) ==
    IF new = 0 THEN [map |-> MapDelete(m, hash), heap |-> hp]
    ELSE IF hash \in DOMAIN m
         THEN [map |-> m,
               heap |-> [hp EXCEPT ![m[hash]].AccessToken = new,
                                   ![m[hash]].LastRefresh = at]]
         ELSE [map |-> m, heap |-> hp]

\* RefreshAllTokens applies the result under the write lock
RefreshAllTokens_Apply ==
    /\ rpc = "apply"
    /\ LET a == ApplyRefresh(tokenMap, heap, cur, newToken, tick) IN
       /\ tokenMap' = a.map
       /\ heap' = a.heap
    /\ todo' = todo \ {cur}
    /\ rpc' = IF todo \ {cur} = {} THEN "idle" ELSE "loop"
    /\ tokens' = IF todo \ {cur} = {} THEN EmptyMap ELSE tokens
    /\ cur' = NoToken
    /\ newToken' = 0
    /\ refreshCall' = NoCall
    /\ UNCHANGED << issued, calls, tick, invalidated, revoked >>
    /\ UNCHANGED requestVars
    /\ UNCHANGED nonTokenVars

TokenNext ==
    \/ \E r \in Requests, k \in XApiKeys, a \in Authorizations :
          AuthMiddleware(r, [xApiKey |-> k, authorization |-> a])
    \/ \E r \in Requests : GetOrRefreshToken_Check(r)
    \/ \E r \in Requests : GetOrRefreshToken_Return(r)
    \/ \E r \in Requests, ok \in BOOLEAN : GetOrRefreshToken_Exchange(r, ok)
    \/ \E r \in Requests : GetOrRefreshToken_Store(r)
    \/ \E r \in Requests, status \in {200, 403, 429}, isStream \in BOOLEAN :
          Upstream(r, status, isStream)
    \/ \E r \in Requests : Finish(r)
    \/ RefreshAllTokens_Count
    \/ RefreshAllTokens_Snapshot
    \/ \E h \in Hashes, ok \in BOOLEAN : RefreshAllTokens_Call(h, ok)
    \/ RefreshAllTokens_Apply


(***************************************************************************)
(* Prompt cache (package cache)                                            *)
(***************************************************************************)
Workers == 1..NumWorkers

\* time.Hour and 5 * time.Minute, in units of five minutes
OneHour == 12

FiveMinutes == 1

\* cache_control of a block: absent (nil), ephemeral without ttl, ephemeral
\* with a one-hour ttl, and a marker of another type
NoCC == [Type |-> "", TTL |-> "", present |-> FALSE]

EphemeralCC == [Type |-> "ephemeral", TTL |-> "", present |-> TRUE]

EphemeralHourCC == [Type |-> "ephemeral", TTL |-> "1h", present |-> TRUE]

OtherCC == [Type |-> "persistent", TTL |-> "5m", present |-> TRUE]

\* content of a request as ProcessRequest walks it: system prompts, string
\* message contents, typed text blocks
BlockPool ==
    { [kind |-> "system", text |-> << "a" >>, cc |-> EphemeralCC],
      [kind |-> "system", text |-> << >>, cc |-> EphemeralCC],
      [kind |-> "string", text |-> << "a" >>, cc |-> NoCC],
      [kind |-> "text", text |-> << "b", "b" >>, cc |-> EphemeralHourCC],
      [kind |-> "text", text |-> << "b", "b" >>, cc |-> OtherCC] }

\* req.System is walked before req.Messages
SystemFirst(q) ==
    \A i, j \in 1..Len(q) : (i < j /\ q[j].kind = "system") => q[i].kind = "system"

CacheRequests ==
    { q \in UNION { [1..n -> BlockPool] : n \in 1..MaxBlocks } : SystemFirst(q) }

\* TokenEstimator.countTokens, by its character-count branch
countTokens(text) == Len(text)

EstimateTextTokens(text) == IF text = << >> THEN 0 ELSE countTokens(text)

\* computeHash: collision-free on the texts of the model
computeHash(content) == << "sha256", content >>

\* the token count ProcessRequest passes to processContentBlock
BlockTokens(b) ==
    IF b.kind = "system" THEN EstimateTextTokens(b.text) + 2
    ELSE EstimateTextTokens(b.text)

\* the cache_control ProcessRequest passes: nil for a string content
BlockCC(b) == IF b.kind = "string" THEN NoCC ELSE b.cc

\* A test that takes any marker for an ephemeral one.
hasCacheControl_AnyType(cc) == cc.present

hasCacheControl(cc) == cc.present /\ cc.Type = "ephemeral"

\* processContentBlock: the ttl it passes to Set
SetTTL(cc) == IF cc.TTL = "" THEN "5m" ELSE cc.TTL

\* calculateExpTime, called at time t
calculateExpTime(ttl, t) ==
    IF ttl = "1h" THEN t + OneHour ELSE t + FiveMinutes

\* A comparison that also holds at the instant of expiry.
After_OrEqual(t, u) == t >= u

\* time.Time.After
After(t, u) == t > u

\* the Go heap: objects no pointer refers to are gone
Collect(objs, ents, ptrs) ==
    [i \in (({ents[k] : k \in DOMAIN ents} \cup {ptrs[w] : w \in Workers}) \ {0})
        |-> objs[i]]

\* &CacheEntry{...}: a pointer not in use
NewObject(objs) ==
    CHOOSE i \in 1..(Cardinality(DOMAIN objs) + 1) :
        /\ i \notin DOMAIN objs
        /\ \A j \in 1..(i - 1) : j \in DOMAIN objs

NoResult == [CacheReadTokens |-> 0, CacheCreationTokens |-> 0]

CacheInit ==
    /\ globalCache = "nil"
    /\ entries = EmptyMap
    /\ objects = EmptyMap
    /\ now = 0
    /\ wpc = [w \in Workers |-> "idle"]
    /\ blocks = [w \in Workers |-> << >>]
    /\ entry = [w \in Workers |-> 0]
    /\ result = [w \in Workers |-> NoResult]
    /\ marked = FALSE

InitGlobalCache ==
    /\ globalCache = "nil"
    /\ globalCache' = "set"
    /\ entries' = EmptyMap
    /\ UNCHANGED << objects, now, wpc, blocks, entry, result >>
    /\ UNCHANGED << marked, nonCacheVars >>

\* a request one of whose blocks carries cache_control.type == ephemeral
Marked(req) ==
    \E i \in 1..Len(req) : req[i].cc.present /\ req[i].cc.Type = "ephemeral"

\* ProcessRequest is entered; with no global cache it returns at once
ProcessRequest(w, req) ==
    /\ wpc[w] = "idle"
    /\ IF globalCache = "nil"
       THEN UNCHANGED << wpc, blocks, result >>
       ELSE /\ wpc' = [wpc EXCEPT ![w] = "block"]
            /\ blocks' = [blocks EXCEPT ![w] = req]
            /\ result' = [result EXCEPT ![w] = NoResult]
    /\ marked' = (marked \/ Marked(req))
    /\ UNCHANGED << globalCache, entries, objects, now, entry >>
    /\ UNCHANGED nonCacheVars

\* the loops of ProcessRequest: return after the last block, skip a block
\* with empty text, call processContentBlock (and so Get) for any other
ProcessRequest_Loop(w) ==
    /\ wpc[w] = "block"
    /\ IF blocks[w] = << >>
       THEN /\ wpc' = [wpc EXCEPT ![w] = "idle"]
            /\ result' = [result EXCEPT ![w] = NoResult]
            /\ UNCHANGED blocks
       ELSE IF Head(blocks[w]).text = << >>
            THEN /\ blocks' = [blocks EXCEPT ![w] = Tail(@)]
                 /\ UNCHANGED << wpc, result >>
            ELSE /\ wpc' = [wpc EXCEPT ![w] = "get_read"]
                 /\ UNCHANGED << blocks, result >>
    /\ UNCHANGED << globalCache, entries, objects, now, entry >>
    /\ UNCHANGED << marked, nonCacheVars >>

\* the hash of the block worker w is processing
CurrentHash(w) == computeHash(Head(blocks[w]).text)

\* Get: the map lookup under the read lock
Get_Read(w) ==
    /\ wpc[w] = "get_read"
    /\ IF CurrentHash(w) \in DOMAIN entries
       THEN /\ entry' = [entry EXCEPT ![w] = entries[CurrentHash(w)]]
            /\ wpc' = [wpc EXCEPT ![w] = "get_check"]
       ELSE /\ wpc' = [wpc EXCEPT ![w] = "miss"]
            /\ UNCHANGED entry
    /\ UNCHANGED << globalCache, entries, objects, now, blocks, result >>
    /\ UNCHANGED << marked, nonCacheVars >>

\* Get: the expiry test, with no lock held
Get_Check(w) ==
    /\ wpc[w] = "get_check"
    /\ wpc' = [wpc EXCEPT ![w] =
                  IF After(now, objects[entry[w]].ExpTime)
                  THEN "get_delete" ELSE "get_refresh"]
    /\ UNCHANGED << globalCache, entries, objects, now, blocks, entry, result >>
    /\ UNCHANGED << marked, nonCacheVars >>

\* Get: the entry was found expired; delete(c.entries, hash) under the write
\* lock and report a miss
Get_Delete(w) ==
    /\ wpc[w] = "get_delete"
    /\ entries' = MapDelete(entries, CurrentHash(w))
    /\ entry' = [entry EXCEPT ![w] = 0]
    /\ objects' = Collect(objects, entries', entry')
    /\ wpc' = [wpc EXCEPT ![w] = "miss"]
    /\ UNCHANGED << globalCache, now, blocks, result >>
    /\ UNCHANGED << marked, nonCacheVars >>

\* Get: the entry was found live; its expiry is renewed through the pointer
\* under the write lock and a hit is reported
Get_Refresh(w) ==
    /\ wpc[w] = "get_refresh"
    /\ objects' = [objects EXCEPT ![entry[w]].ExpTime =
                      calculateExpTime(objects[entry[w]].TTL, now)]
    /\ wpc' = [wpc EXCEPT ![w] = "hit"]
    /\ UNCHANGED << globalCache, entries, now, blocks, entry, result >>
    /\ UNCHANGED << marked, nonCacheVars >>

\* processContentBlock: what a hit adds to CacheReadTokens
ReadTokens_Computed(e, count) == count

ReadTokens(e, count) == e.Tokens

\* processContentBlock after Get reported a hit
processContentBlock_Hit(w) ==
    /\ wpc[w] = "hit"
    /\ result' = [result EXCEPT ![w].CacheReadTokens =
                     @ + ReadTokens(objects[entry[w]], BlockTokens(Head(blocks[w])))]
    /\ entry' = [entry EXCEPT ![w] = 0]
    /\ objects' = Collect(objects, entries, entry')
    /\ blocks' = [blocks EXCEPT ![w] = Tail(@)]
    /\ wpc' = [wpc EXCEPT ![w] = "block"]
    /\ UNCHANGED << globalCache, entries, now >>
    /\ UNCHANGED << marked, nonCacheVars >>

\* Set: a new entry object under the hash
Set(ents, objs, hash, count, ttl, t) ==
    [entries |-> MapPut(ents, hash, NewObject(objs)),
     objects |-> MapPut(objs, NewObject(objs),
                        [Tokens |-> count, ExpTime |-> calculateExpTime(ttl, t),
                         TTL |-> ttl])]

\* processContentBlock after Get reported a miss: a block marked ephemeral is
\* cached and counted as created, any other block is left alone
processContentBlock_Miss(w) ==
    /\ wpc[w] = "miss"
    /\ LET b == Head(blocks[w])
           st == Set(entries, objects, CurrentHash(w), BlockTokens(b),
                     SetTTL(BlockCC(b)), now) IN
       IF hasCacheControl(BlockCC(b))
       THEN /\ entries' = st.entries
            /\ objects' = Collect(st.objects, st.entries, entry)
            /\ result' = [result EXCEPT ![w].CacheCreationTokens = @ + BlockTokens(b)]
       ELSE UNCHANGED << entries, objects, result >>
    /\ blocks' = [blocks EXCEPT ![w] = Tail(@)]
    /\ wpc' = [wpc EXCEPT ![w] = "block"]
    /\ UNCHANGED << globalCache, now, entry >>
    /\ UNCHANGED << marked, nonCacheVars >>

\* CleanExpired, run by the goroutine StartCleaner starts
CleanExpired ==
    /\ globalCache = "set"
    /\ entries' = [k \in { h \in DOMAIN entries :
                              ~After(now, objects[entries[h]].ExpTime) }
                      |-> entries[k]]
    /\ objects' = Collect(objects, entries', entry)
    /\ UNCHANGED << globalCache, now, wpc, blocks, entry, result >>
    /\ UNCHANGED << marked, nonCacheVars >>

\* five minutes pass
Advance ==
    /\ now < MaxNow
    /\ now' = now + 1
    /\ UNCHANGED << globalCache, entries, objects, wpc, blocks, entry, result >>
    /\ UNCHANGED << marked, nonCacheVars >>

CacheNext ==
    \/ InitGlobalCache
    \/ \E w \in Workers, req \in CacheRequests : ProcessRequest(w, req)
    \/ \E w \in Workers : ProcessRequest_Loop(w)
    \/ \E w \in Workers : Get_Read(w)
    \/ \E w \in Workers : Get_Check(w)
    \/ \E w \in Workers : Get_Delete(w)
    \/ \E w \in Workers : Get_Refresh(w)
    \/ \E w \in Workers : processContentBlock_Hit(w)
    \/ \E w \in Workers : processContentBlock_Miss(w)
    \/ CleanExpired
    \/ Advance

(***************************************************************************)
(* AWS EventStream parser (RobustEventStreamParser)                        *)
(***************************************************************************)
EventStreamMinMessageSize == 16

EventStreamMaxMessageSize == 16777216

\* config.ParserMaxErrors
ParserMaxErrors == 30

\* binary.BigEndian.Uint32
Uint32(b) == b[1] * 16777216 + b[2] * 65536 + b[3] * 256 + b[4]

\* binary.BigEndian.Uint16
Uint16(b) == b[1] * 256 + b[2]

\* the big-endian encoding of n in four bytes
PutUint32(n) ==
    << (n \div 16777216) % 256, (n \div 65536) % 256, (n \div 256) % 256, n % 256 >>

\* data[a:b] of Go: the bytes at offsets a .. b-1
Slice(data, a, b) == SubSeq(data, a + 1, b)

\* width of a header value of a fixed-width type; -1 for the length-prefixed
\* types (bytes, string), -2 for an unknown type
ValueWidth(type) ==
    CASE type \in {0, 1} -> 0
      [] type = 2 -> 1
      [] type = 3 -> 2
      [] type = 4 -> 4
      [] type \in {5, 8} -> 8
      [] type = 9 -> 16
      [] type \in {6, 7} -> -1
      [] OTHER -> -2

\* HeaderParser.ParseHeaders: name-length, name, value-type, value, repeated;
\* returns the headers decoded and whether the whole block was decoded
RECURSIVE ParseHeadersFrom(_, _)
ParseHeadersFrom(data, done) ==
    IF data = << >> THEN [headers |-> done, ok |-> TRUE]
    ELSE
      LET nameLen == data[1]
          fail == [headers |-> done, ok |-> FALSE] IN
      IF nameLen = 0 \/ Len(data) < 1 + nameLen + 1 THEN fail
      ELSE
        LET name == Slice(data, 1, 1 + nameLen)
            type == data[2 + nameLen]
            rest == Slice(data, 2 + nameLen, Len(data))
            w == ValueWidth(type) IN
        IF w = -2 THEN fail
        ELSE IF w >= 0
        THEN IF Len(rest) < w THEN fail
             ELSE ParseHeadersFrom(Slice(rest, w, Len(rest)),
                     Append(done, [name |-> name, type |-> type,
                                   value |-> Slice(rest, 0, w)]))
        ELSE IF Len(rest) < 2 THEN fail
             ELSE IF Len(rest) < 2 + Uint16(rest) THEN fail
             ELSE ParseHeadersFrom(Slice(rest, 2 + Uint16(rest), Len(rest)),
                     Append(done, [name |-> name, type |-> type,
                                   value |-> Slice(rest, 2, 2 + Uint16(rest))]))

ParseHeaders(headerData) == ParseHeadersFrom(headerData, << >>)

\* the headers synthesized for an empty or undecodable header block
DefaultHeaders ==
    << [name |-> ":message-type", type |-> 7, value |-> "event"],
       [name |-> ":event-type", type |-> 7, value |-> "assistantResponseEvent"],
       [name |-> ":content-type", type |-> 7, value |-> "application/json"] >>

\* parseSingleMessageWithValidation: the headers of a message; a block that
\* fails to decode keeps the headers decoded so far if there are any
\* (IsHeaderParseRecoverable / ForceCompleteHeaderParsing) and gets the
\* defaults otherwise
MessageHeaders(headerData) ==
    IF Len(headerData) = 0 THEN DefaultHeaders
    ELSE LET r == ParseHeaders(headerData) IN
         IF r.ok THEN r.headers
         ELSE IF r.headers # << >> THEN r.headers
         ELSE DefaultHeaders

\* parseSingleMessageWithValidation: [ok, message]
parseSingleMessageWithValidation(data) ==
    LET bad == [ok |-> FALSE, message |-> << >>] IN
    IF Len(data) < 16 THEN bad
    ELSE
      LET totalLength == Uint32(Slice(data, 0, 4))
          headerLength == Uint32(Slice(data, 4, 8)) IN
      IF totalLength # Len(data) THEN bad
      ELSE IF totalLength < 16 THEN bad
      ELSE IF totalLength > 16777216 THEN bad
      ELSE IF headerLength > totalLength - 16 THEN bad
      ELSE
        LET headerData == Slice(data, 12, 12 + headerLength)
            payloadStart == 12 + headerLength
            payloadEnd == totalLength - 4 IN
        IF payloadStart > payloadEnd \/ payloadEnd > Len(data) THEN bad
        ELSE [ok |-> TRUE,
              message |-> [Headers |-> MessageHeaders(headerData),
                           Payload |-> Slice(data, payloadStart, payloadEnd)]]

\* parseStreamWithBuffer: whether a frame whose length is announced has to
\* wait for more data
IncompleteFrame_Never(available, totalLength) == FALSE

IncompleteFrame(available, totalLength) == available < totalLength

\* parseStreamWithBuffer: a declared total length no frame can have
Implausible(totalLength) ==
    totalLength < EventStreamMinMessageSize
       \/ totalLength > EventStreamMaxMessageSize

\* parseStreamWithBuffer: the buffer after the bytes dropped on an implausible
\* length (rp.buffer.Next(1))
Skip_FourBytes(buf) == Slice(buf, 4, Len(buf))

Skip_Nothing(buf) == buf

Skip(buf) == Slice(buf, 1, Len(buf))

\* one iteration of the loop of parseStreamWithBuffer on buffer buf: whether
\* it leaves the loop (break), the buffer it leaves behind, the message it
\* appends and the errors it counts
Iteration(buf) ==
    LET available == Len(buf)
        break == [leave |-> TRUE, buffer |-> buf, messages |-> << >>,
                  errors |-> 0] IN
    IF available < EventStreamMinMessageSize THEN break
    ELSE
      LET totalLength == Uint32(Slice(buf, 0, 4)) IN
      IF Implausible(totalLength)
      THEN [leave |-> FALSE, buffer |-> Skip(buf), messages |-> << >>,
            errors |-> 1]
      ELSE IF IncompleteFrame(available, totalLength) THEN break
      ELSE IF available < totalLength
      THEN [leave |-> TRUE, buffer |-> << >>, messages |-> << >>,
            errors |-> 0]
      ELSE
        LET r == parseSingleMessageWithValidation(Slice(buf, 0, totalLength))
            rest == Slice(buf, totalLength, available) IN
        IF r.ok
        THEN [leave |-> FALSE, buffer |-> rest, messages |-> << r.message >>,
              errors |-> 0]
        ELSE [leave |-> FALSE, buffer |-> rest, messages |-> << >>,
              errors |-> 1]

\* the loop of parseStreamWithBuffer on buffer buf, with the messages and the
\* error count so far
RECURSIVE ParseLoop(_, _, _)
ParseLoop(buf, messages, errors) ==
    LET it == Iteration(buf) IN
    IF it.leave
    THEN [buffer |-> it.buffer, messages |-> messages, errorCount |-> errors]
    ELSE ParseLoop(it.buffer, messages \o it.messages, errors + it.errors)

\* parseStreamWithBuffer: the check of the error count after the loop
TooManyErrors_Exactly(errors, limit) == errors = limit

TooManyErrors(errors, limit) == errors >= limit

\* parseStreamWithBuffer: append data to the buffer, run the loop, report an
\* error once the error count has reached maxErrors
parseStreamWithBuffer_Unbuffered(buf, errors, limit, data) ==
    LET r == ParseLoop(buf \o data, << >>, errors) IN
    [buffer |-> << >>, errorCount |-> r.errorCount, messages |-> r.messages,
     err |-> TooManyErrors(r.errorCount, limit)]

parseStreamWithBuffer(buf, errors, limit, data) ==
    LET r == ParseLoop(buf \o data, << >>, errors) IN
    [buffer |-> r.buffer, errorCount |-> r.errorCount, messages |-> r.messages,
     err |-> TooManyErrors(r.errorCount, limit)]

\* an EventStream frame with the given header block and payload; the two
\* CRC fields are not verified by the parser
Frame(headerData, payload) ==
    PutUint32(16 + Len(headerData) + Len(payload)) \o PutUint32(Len(headerData))
       \o << 0, 0, 0, 0 >> \o headerData \o payload \o << 0, 0, 0, 0 >>

\* what an upstream byte string is made of: whole frames (no header, a
\* payload, a header block, a header block that decodes in part), a length
\* below the minimum, a length above the maximum, a frame whose header length
\* exceeds the frame, and a frame cut short
Pieces ==
    { Frame(<< >>, << >>),
      Frame(<< >>, << 7 >>),
      Frame(<< 1, 109, 0 >>, << >>),
      Frame(<< 1, 109, 0, 2, 110 >>, << 8 >>),
      << 0, 0, 0, 5 >>,
      << 1, 1, 0, 0 >>,
      PutUint32(16) \o PutUint32(1) \o << 0, 0, 0, 0, 0, 0, 0, 0 >>,
      SubSeq(Frame(<< >>, << 7 >>), 1, 10) }

RECURSIVE Concat(_)
Concat(ps) == IF ps = << >> THEN << >> ELSE Head(ps) \o Concat(Tail(ps))

ParserInputs ==
    { Concat(ps) : ps \in UNION { [1..n -> Pieces] : n \in 1..MaxPieces } }

\* NewRobustEventStreamParser, with no body to read
ParserIdle ==
    /\ input = << >>
    /\ fed = 0
    /\ chunks = 0
    /\ buffer = << >>
    /\ errorCount = 0
    /\ maxErrors = ParserMaxErrors
    /\ out = << >>
    /\ lastError = FALSE
    /\ errorsReturned = 0

\* NewRobustEventStreamParser, and the body the upstream is going to deliver
ParserInit ==
    /\ input \in ParserInputs
    /\ fed = 0
    /\ chunks = 0
    /\ buffer = << >>
    /\ errorCount = 0
    /\ maxErrors = ParserMaxErrors
    /\ out = << >>
    /\ lastError = FALSE
    /\ errorsReturned = 0

SetMaxErrors(n) ==
    /\ fed = 0
    /\ maxErrors = ParserMaxErrors
    /\ maxErrors' = n
    /\ UNCHANGED << input, fed, chunks, buffer, errorCount, out, lastError,
                    errorsReturned >>
    /\ UNCHANGED nonParserVars

\* ParseStream on the next n bytes of the body
ParseStream(n) ==
    /\ n \in 1..(Len(input) - fed)
    /\ LET r == parseStreamWithBuffer(buffer, errorCount, maxErrors,
                                      SubSeq(input, fed + 1, fed + n)) IN
       /\ buffer' = r.buffer
       /\ errorCount' = r.errorCount
       /\ out' = out \o r.messages
       /\ lastError' = r.err
       /\ errorsReturned' = IF r.err /\ errorsReturned < MaxChunks
                            THEN errorsReturned + 1 ELSE errorsReturned
    /\ fed' = fed + n
    /\ chunks' = IF chunks < MaxChunks THEN chunks + 1 ELSE chunks
    /\ UNCHANGED << input, maxErrors >>
    /\ UNCHANGED nonParserVars

ParserNext ==
    \/ \E n \in {1, 2} : SetMaxErrors(n)
    \/ \E n \in 1..(MaxPieces * 22) : ParseStream(n)

(***************************************************************************)
(* Tool schema cleaning (cleanAndValidateToolParameters)                   *)
(*                                                                         *)
(* A JSON value is a record [t, v]: t names the Go type behind the `any`   *)
(* ("null", "bool", "string", "array", "object") and v is the value.  A    *)
(* map[string]any is JObject(m) with m a function over its keys, and the   *)
(* nil map is JNull.  Top-level keys are strings; property names, whose    *)
(* length the code measures, are sequences of byte values.                 *)
(***************************************************************************)
JNull == [t |-> "null", v |-> 0]

JBool(b) == [t |-> "bool", v |-> b]

JString(s) == [t |-> "string", v |-> s]

JArray(a) == [t |-> "array", v |-> a]

JObject(m) == [t |-> "object", v |-> m]

NoProperties == [k \in {} |-> JNull]

Delete(m, keys) == [k \in DOMAIN m \ keys |-> m[k]]

Put(m, key, value) == [k \in DOMAIN m \cup {key} |-> IF k = key THEN value ELSE m[k]]

NonPortableKeys ==
    { "additionalProperties", "strict", "$schema", "$id", "$ref", "definitions", "$defs" }

Underscore == << 95 >>

ParamSuffix == << 95, 112, 97, 114, 97, 109 >>

\* A variant that shortens every over-long name the same way.
CleanedName_AlwaysParam(paramName) ==
    IF Len(paramName) > 64
    THEN SubSeq(paramName, 1, 30) \o ParamSuffix
    ELSE paramName

\* tools.go 38-47 for a property key, 57-65 for a required name.
CleanedName(paramName) ==
    IF Len(paramName) > 64
    THEN IF Len(paramName) > 80
         THEN SubSeq(paramName, 1, 20) \o Underscore
                  \o SubSeq(paramName, Len(paramName) - 19, Len(paramName))
         ELSE SubSeq(paramName, 1, 30) \o ParamSuffix
    ELSE paramName

\* The orders in which a range loop may visit the keys of a map.
RangeOrders(keys) ==
    { ord \in [1..Cardinality(keys) -> keys] :
        \A i, j \in 1..Cardinality(keys) : i # j => ord[i] # ord[j] }

\* The loop of tools.go 37-49, visiting the keys in the order ord.
RECURSIVE CleanedProperties(_, _, _)
CleanedProperties(properties, ord, cleanedProperties) ==
    IF ord = << >>
    THEN cleanedProperties
    ELSE CleanedProperties(properties, Tail(ord),
             Put(cleanedProperties, CleanedName(Head(ord)), properties[Head(ord)]))

\* The loop of tools.go 55-67: entries that are not strings are left out.
RECURSIVE CleanedRequired(_)
CleanedRequired(required) ==
    IF required = << >>
    THEN << >>
    ELSE (IF Head(required).t = "string"
          THEN << JString(CleanedName(Head(required).v)) >>
          ELSE << >>) \o CleanedRequired(Tail(required))

\* The loop of tools.go 94-98: the non-empty strings of arr.
RECURSIVE NonEmptyStrings(_)
NonEmptyStrings(arr) ==
    IF arr = << >>
    THEN << >>
    ELSE (IF Head(arr).t = "string" /\ Head(arr).v # << >>
          THEN << Head(arr) >>
          ELSE << >>) \o NonEmptyStrings(Tail(arr))

HasMap(m, key) == key \in DOMAIN m /\ m[key].t = "object"

HasArray(m, key) == key \in DOMAIN m /\ m[key].t = "array"

\* tools.go 35-70.
RenameLongNames(tempParams, ord) ==
    IF HasMap(tempParams, "properties")
    THEN LET renamed == Put(tempParams, "properties",
                 JObject(CleanedProperties(tempParams["properties"].v, ord, NoProperties)))
         IN  IF HasArray(renamed, "required")
             THEN Put(renamed, "required",
                      JArray(CleanedRequired(renamed["required"].v)))
             ELSE renamed
    ELSE tempParams

\* tools.go 73-75.
EnsureType(tempParams) ==
    IF "type" \notin DOMAIN tempParams
    THEN Put(tempParams, "type", JString("object"))
    ELSE tempParams

\* tools.go 78-85.
ObjectLacksProperties(tempParams) ==
    /\ "type" \in DOMAIN tempParams
    /\ tempParams["type"].t = "string"
    /\ tempParams["type"].v = "object"
    /\ "properties" \notin DOMAIN tempParams

\* tools.go 91-103.
NormalizeRequired(tempParams) ==
    IF "required" \in DOMAIN tempParams /\ tempParams["required"].t # "null"
    THEN IF tempParams["required"].t = "array"
         THEN Put(tempParams, "required",
                  JArray(NonEmptyStrings(tempParams["required"].v)))
         ELSE Delete(tempParams, {"required"})
    ELSE tempParams

\* tools.go 104-111.
NormalizeProperties(tempParams) ==
    IF HasMap(tempParams, "properties")
    THEN tempParams
    ELSE Put(tempParams, "properties", JObject(NoProperties))

CleanError == [err |-> TRUE, params |-> JNull]

\* tools.go 13-114; ord is the order in which the range loop over the
\* properties runs.
cleanAndValidateToolParameters(params, ord) ==
    IF params.t = "null"
    THEN CleanError
    ELSE LET tempParams == EnsureType(RenameLongNames(Delete(params.v, NonPortableKeys), ord))
         IN  IF ObjectLacksProperties(tempParams)
             THEN CleanError
             ELSE [err |-> FALSE,
                   params |-> JObject(NormalizeProperties(NormalizeRequired(tempParams)))]

\* ---- the schemas the function is applied to ----
\* A name of n bytes; the byte at position 25 tells names of one length apart.
NameOf(n, mark) == [i \in 1..n |-> IF i = 25 THEN mark ELSE 97 + (i % 7)]

ShortName == NameOf(3, 0)

Name64 == NameOf(64, 120)

Name65 == NameOf(65, 120)

Name80 == NameOf(80, 120)

Name81 == NameOf(81, 120)

Name81b == NameOf(81, 121)

\* A short name spelled like the shortened form of Name81.
Name41 == [i \in 1..41 |-> IF i <= 20 THEN Name81[i]
                           ELSE IF i = 21 THEN 95 ELSE Name81[i + 40]]

PropertyNames == { ShortName, Name41, Name64, Name65, Name80, Name81, Name81b }

ParamDef(name) == JObject([k \in {"description"} |-> JString(name)])

PropertyMaps ==
    { [k \in keys |-> ParamDef(k)] :
        keys \in { s \in SUBSET PropertyNames : Cardinality(s) <= MaxProperties } }

Absent == [present |-> FALSE, value |-> JNull]

Present(value) == [present |-> TRUE, value |-> value]

TypeChoices == { Absent, Present(JString("object")), Present(JString("string")),
                 Present(JBool(TRUE)) }

PropertiesChoices ==
    { Absent, Present(JBool(TRUE)) } \cup { Present(JObject(m)) : m \in PropertyMaps }

RequiredChoices ==
    { Absent, Present(JNull), Present(JString(ShortName)),
      Present(JArray(<< >>)),
      Present(JArray(<< JString(Name64) >>)),
      Present(JArray(<< JString(Name65), JString(Name81) >>)),
      Present(JArray(<< JString(Name80), JBool(TRUE), JString(<< >>) >>)),
      Present(JArray(<< JString(ShortName), JString(Name81b) >>)) }

ExtraChoices == { {}, {"$schema"}, NonPortableKeys }

SchemaOf(type, properties, required, extra) ==
    LET keys == extra \cup (IF type.present THEN {"type"} ELSE {})
                      \cup (IF properties.present THEN {"properties"} ELSE {})
                      \cup (IF required.present THEN {"required"} ELSE {})
    IN  [k \in keys |->
            CASE k = "type" -> type.value
              [] k = "properties" -> properties.value
              [] k = "required" -> required.value
              [] OTHER -> JBool(FALSE)]

Schemas ==
    { JNull } \cup
    { JObject(SchemaOf(ty, pr, rq, ex)) :
        ty \in TypeChoices, pr \in PropertiesChoices,
        rq \in RequiredChoices, ex \in ExtraChoices }

PropertyKeys(params) ==
    IF params.t = "object" /\ HasMap(params.v, "properties")
    THEN DOMAIN params.v["properties"].v
    ELSE {}

NotCleaned == [err |-> FALSE, params |-> JNull]

SchemaIdle == toolParams = JNull /\ cleanResult = NotCleaned /\ cleanPc = "idle"

SchemaInit == toolParams \in Schemas /\ cleanResult = NotCleaned /\ cleanPc = "call"

\* One call of cleanAndValidateToolParameters.
CleanTool ==
    /\ cleanPc = "call"
    /\ \E ord \in RangeOrders(PropertyKeys(toolParams)) :
           cleanResult' = cleanAndValidateToolParameters(toolParams, ord)
    /\ cleanPc' = "done"
    /\ UNCHANGED << toolParams, nonSchemaVars >>

SchemaNext == CleanTool

(***************************************************************************)
(* Response writer adapter (ResponseRewriter)                              *)
(*                                                                         *)
(* A byte string is a sequence of pieces: the markers looksLikeSSEChunk    *)
(* searches for, a line feed, a byte "x" and a block of one MiB.  Lengths  *)
(* are counted in bytes.                                                   *)
(***************************************************************************)
\* 2 * 1024 * 1024
maxBufferedResponseBytes == 2097152

PieceLen(p) ==
    CASE p = "MiB" -> 1024 * 1024
      [] p = "x" -> 1
      [] p = "\n" -> 1
      [] p = "data:" -> 5
      [] p = "event:" -> 6
      [] p = "message_start" -> 13
      [] p = "message_delta" -> 13
      [] p = "content_block_start" -> 19
      [] p = "content_block_delta" -> 19
      [] p = "content_block_stop" -> 18
      [] p = "application/json" -> 16
      [] p = "text/event-" -> 11
      [] p = "application/octet-" -> 18
      [] p = "stream" -> 6

\* len(data) and bytes.Buffer.Len
RECURSIVE ByteLen(_)
ByteLen(data) == IF data = << >> THEN 0 ELSE PieceLen(Head(data)) + ByteLen(Tail(data))

\* bytes.Contains and strings.Contains
Contains(data, pattern) ==
    \E i \in 1..(Len(data) - Len(pattern) + 1) :
        SubSeq(data, i, i + Len(pattern) - 1) = pattern

looksLikeSSEChunk(data) ==
    \/ Contains(data, << "data:" >>)
    \/ Contains(data, << "event:" >>)
    \/ Contains(data, << "message_start" >>)
    \/ Contains(data, << "message_delta" >>)
    \/ Contains(data, << "content_block_start" >>)
    \/ Contains(data, << "content_block_delta" >>)
    \/ Contains(data, << "content_block_stop" >>)
    \/ Contains(data, << "\n", "\n" >>)

\* Write's detection on the first write: the Content-Type names a stream
StreamContentType(ct) ==
    Contains(ct, << "text/event-", "stream" >>) \/ Contains(ct, << "stream" >>)

\* A limit twice as large.
OverLimit_Doubled(size) == size > 2 * maxBufferedResponseBytes

\* rw.body.Len()+len(data) > maxBufferedResponseBytes
OverLimit(size) == size > maxBufferedResponseBytes

\* the chunks a handler writes
Chunks ==
    { << >>, << "x" >>, << "\n", "x", "\n" >>, << "x", "\n", "\n" >>,
      << "data:", "x" >>, << "message_delta" >>, << "MiB" >>, << "MiB", "x" >> }

\* the Content-Type headers a handler sets
ContentTypes ==
    { << >>, << "application/json" >>, << "text/event-", "stream" >>,
      << "application/octet-", "stream" >> }

NotWritten == [chunk |-> << >>, n |-> 0, err |-> FALSE]

\* NewResponseRewriter
RewriterInit ==
    /\ isStreaming = FALSE
    /\ rwBody = << >>
    /\ contentType = << >>
    /\ written = << >>
    /\ writes = 0
    /\ flushes = 0
    /\ wrote = NotWritten
    /\ given = << >>

\* c.Header("Content-Type", ct) on the wrapped writer
SetContentType(ct) ==
    /\ contentType # ct
    /\ contentType' = ct
    /\ UNCHANGED << isStreaming, rwBody, written, writes, flushes, wrote, given >>
    /\ UNCHANGED nonRewriterVars

\* enableStreaming, called with rw.isStreaming false: the buffered bytes go
\* to the wrapped writer, whose Write succeeds or not (flushed)
enableStreaming(flushed) ==
    [isStreaming |-> TRUE,
     body |-> << >>,
     written |-> IF ByteLen(rwBody) > 0 /\ flushed THEN written \o rwBody ELSE written,
     err |-> ByteLen(rwBody) > 0 /\ ~flushed]

\* Write(data); flushed and passed tell whether the wrapped writer's Write
\* succeeds for the buffered bytes and for data
Write(data, flushed, passed) ==
    /\ writes < MaxWrites
    /\ writes' = writes + 1
    /\ given' = given \o data
    /\ LET detected == IF ~isStreaming /\ ByteLen(rwBody) = 0
                       THEN StreamContentType(contentType)
                       ELSE isStreaming
           switch == ~detected /\ (looksLikeSSEChunk(data)
                                     \/ OverLimit(ByteLen(rwBody) + ByteLen(data)))
           enabled == enableStreaming(flushed)
       IN  IF switch /\ enabled.err
           THEN /\ isStreaming' = TRUE
                /\ rwBody' = enabled.body
                /\ written' = enabled.written
                /\ wrote' = [chunk |-> data, n |-> 0, err |-> TRUE]
           ELSE IF switch \/ detected
           THEN /\ isStreaming' = TRUE
                /\ rwBody' = IF switch THEN enabled.body ELSE rwBody
                /\ written' = (IF switch THEN enabled.written ELSE written)
                                 \o (IF passed THEN data ELSE << >>)
                /\ wrote' = [chunk |-> data,
                             n |-> IF passed THEN ByteLen(data) ELSE 0,
                             err |-> ~passed]
           ELSE /\ isStreaming' = FALSE
                /\ rwBody' = rwBody \o data
                /\ written' = written
                /\ wrote' = [chunk |-> data, n |-> ByteLen(data), err |-> FALSE]
    /\ UNCHANGED << contentType, flushes >>
    /\ UNCHANGED nonRewriterVars

\* Flush(): while buffering, the buffer is written to the wrapped writer and
\* kept
Flush(passed) ==
    /\ flushes < MaxFlushes
    /\ flushes' = flushes + 1
    /\ written' = IF ~isStreaming /\ ByteLen(rwBody) > 0 /\ passed
                  THEN written \o rwBody ELSE written
    /\ UNCHANGED << isStreaming, rwBody, contentType, writes, wrote, given >>
    /\ UNCHANGED nonRewriterVars

RewriterNext ==
    \/ \E ct \in ContentTypes : SetContentType(ct)
    \/ \E data \in Chunks, flushed, passed \in BOOLEAN : Write(data, flushed, passed)
    \/ \E passed \in BOOLEAN : Flush(passed)

(***************************************************************************)
(* Request translator (BuildCodeWhispererRequest)                          *)
(***************************************************************************)
\* a message of the request: its role, the text and images of its content,
\* the ids of its tool_result blocks, the names of its tool_use blocks, and
\* whether its content is of a form processMessageContent rejects
Msg(role, text, images, results, uses, bad) ==
    [Role |-> role, Text |-> text, Images |-> images, ToolResults |-> results,
     ToolUses |-> uses, Bad |-> bad]

MsgPool ==
    { Msg("user", << "u" >>, 1, << >>, << >>, FALSE),
      Msg("user", << >>, 0, << "t1" >>, << >>, FALSE),
      Msg("user", << " " >>, 0, << >>, << >>, FALSE),
      Msg("user", << >>, 0, << >>, << >>, FALSE),
      Msg("user", << >>, 1, << >>, << >>, FALSE),
      Msg("user", << >>, 0, << >>, << >>, TRUE),
      Msg("assistant", << "a" >>, 0, << >>, << "web_search", "read" >>, FALSE),
      Msg("assistant", << >>, 0, << >>, << "websearch" >>, FALSE),
      Msg("assistant", << "b" >>, 0, << >>, << >>, FALSE),
      Msg("system", << "s" >>, 0, << >>, << >>, FALSE) }

\* types.AnthropicTool: the name and the input_schema of a declared tool
Tool(name, schema) == [Name |-> name, InputSchema |-> schema]

\* a schema that needs no cleaning
PlainSchema ==
    JObject(SchemaOf(Present(JString("object")),
                     Present(JObject([k \in {ShortName} |-> ParamDef(k)])),
                     Present(JArray(<< JString(ShortName) >>)), {}))

\* a schema as clients send it: no type, no properties, extra keys
RawSchema ==
    JObject(SchemaOf(Absent, Absent, Present(JString(ShortName)),
                     {"additionalProperties", "$schema"}))

\* the tool lists a request may declare
ToolLists ==
    { << >>,
      << Tool("web_search", PlainSchema) >>,
      << Tool("read", PlainSchema), Tool("websearch", PlainSchema) >>,
      << Tool("", PlainSchema), Tool("Web_Search", PlainSchema) >>,
      << Tool("read", RawSchema) >> }

\* a mapped model, a model passed through, and no model
Models == { "claude-sonnet-4-5", "my-model", "" }

\* config.ModelMap
ModelMap == [k \in {"claude-sonnet-4-5"} |-> "claude-sonnet-4.5"]

BuildRequests ==
    [Messages : UNION { [1..n -> MsgPool] : n \in 0..MaxMsgs },
     Tools : ToolLists, Model : Models, System : { << >>, << "s" >> }]

\* processMessageContent: the text and the images of a content
processMessageContent(msg) ==
    [text |-> IF msg.Bad THEN << >> ELSE msg.Text,
     images |-> IF msg.Bad THEN 0 ELSE msg.Images,
     err |-> msg.Bad]

\* utils.GetMessageContent: the text of a content
GetMessageContent(msg) ==
    [text |-> IF msg.Bad THEN << >> ELSE msg.Text, err |-> msg.Bad]

IsSpace(ch) == ch \in { " ", "\n", "\t" }

\* strings.TrimSpace
RECURSIVE TrimLeft(_)
TrimLeft(t) == IF t # << >> /\ IsSpace(Head(t)) THEN TrimLeft(Tail(t)) ELSE t

RECURSIVE TrimRight(_)
TrimRight(t) ==
    IF t # << >> /\ IsSpace(t[Len(t)]) THEN TrimRight(SubSeq(t, 1, Len(t) - 1)) ELSE t

TrimSpace(t) == TrimRight(TrimLeft(t))

\* strings.Join(parts, "\n")
RECURSIVE Join(_)
Join(parts) ==
    IF parts = << >> THEN << >>
    ELSE IF Len(parts) = 1 THEN parts[1]
    ELSE parts[1] \o << "\n" >> \o Join(Tail(parts))

\* buildEnhancedSystemPrompt, for a request without thinking and agentic mode
buildEnhancedSystemPrompt(req) ==
    TrimSpace(IF req.System # << >> THEN req.System \o << "\n" >> ELSE << >>)

\* the tool names BuildCodeWhispererRequest drops from the declared tools
UnsupportedTool(name) == name = "web_search" \/ name = "websearch"

\* the tool names extractToolUsesFromMessage drops
UnsupportedToolUse_Underscore(name) == name = "web_search"

UnsupportedToolUse(name) == name = "web_search" \/ name = "websearch"

\* the tools loop of BuildCodeWhispererRequest
RECURSIVE ConvertTools(_)
ConvertTools(tools) ==
    IF tools = << >> THEN << >>
    ELSE IF Head(tools).Name = "" \/ UnsupportedTool(Head(tools).Name)
         THEN ConvertTools(Tail(tools))
         ELSE << [Name |-> Head(tools).Name, InputSchema |-> Head(tools).InputSchema] >>
                  \o ConvertTools(Tail(tools))

RECURSIVE ExtractNames(_)
ExtractNames(uses) ==
    IF uses = << >> THEN << >>
    ELSE IF UnsupportedToolUse(Head(uses)) THEN ExtractNames(Tail(uses))
         ELSE << Head(uses) >> \o ExtractNames(Tail(uses))

extractToolUsesFromMessage(msg) == IF msg.Bad THEN << >> ELSE ExtractNames(msg.ToolUses)

extractToolResultsFromMessage(msg) == IF msg.Bad THEN << >> ELSE msg.ToolResults

\* the merge of the buffered user messages into one history entry
RECURSIVE ContentParts(_)
ContentParts(msgs) ==
    IF msgs = << >> THEN << >>
    ELSE LET c == processMessageContent(Head(msgs)) IN
         (IF ~c.err /\ c.text # << >> THEN << c.text >> ELSE << >>)
            \o ContentParts(Tail(msgs))

RECURSIVE AllImages(_)
AllImages(msgs) ==
    IF msgs = << >> THEN 0
    ELSE LET c == processMessageContent(Head(msgs)) IN
         (IF ~c.err /\ c.text # << >> THEN c.images ELSE 0) + AllImages(Tail(msgs))

RECURSIVE AllToolResults(_)
AllToolResults(msgs) ==
    IF msgs = << >> THEN << >>
    ELSE extractToolResultsFromMessage(Head(msgs)) \o AllToolResults(Tail(msgs))

MergedUserMessage_KeepsText(msgs, modelId) ==
    [kind |-> "user",
     Content |-> Join(ContentParts(msgs)),
     Images |-> AllImages(msgs),
     ToolResults |-> AllToolResults(msgs),
     ToolUses |-> << >>,
     ModelId |-> modelId]

MergedUserMessage(msgs, modelId) ==
    [kind |-> "user",
     Content |-> IF AllToolResults(msgs) # << >> THEN << >>
                 ELSE Join(ContentParts(msgs)),
     Images |-> AllImages(msgs),
     ToolResults |-> AllToolResults(msgs),
     ToolUses |-> << >>,
     ModelId |-> modelId]

AssistantMessage(content, toolUses) ==
    [kind |-> "assistant", Content |-> content, Images |-> 0,
     ToolResults |-> << >>, ToolUses |-> toolUses, ModelId |-> ""]

\* an assistant message that follows buffered user messages
PairedAssistant(msg) ==
    AssistantMessage(GetMessageContent(msg).text, extractToolUsesFromMessage(msg))

\* an assistant message with no user message before it: merged into the last
\* history entry
MergeOrphan_Append(h, msg) == Append(h, PairedAssistant(msg))

MergeOrphan(h, msg) ==
    LET last == h[Len(h)]
        more == GetMessageContent(msg) IN
    IF last.kind # "assistant" THEN h
    ELSE [h EXCEPT ![Len(h)] =
            [last EXCEPT
               !.Content = IF ~more.err /\ more.text # << >>
                           THEN (IF last.Content # << >>
                                 THEN last.Content \o << "\n" >> \o more.text
                                 ELSE more.text)
                           ELSE last.Content,
               !.ToolUses = last.ToolUses \o extractToolUsesFromMessage(msg)]]

NoCwReq ==
    [Content |-> << >>, Images |-> 0, ToolResults |-> << >>, Tools |-> << >>,
     ModelId |-> "", ConversationId |-> ""]

NoRequest == [Messages |-> << >>, Tools |-> << >>, Model |-> "", System |-> << >>]

\* no request is being built
BuildIdle ==
    /\ anthropicReq = NoRequest
    /\ bpc = "idle"
    /\ idx = 0
    /\ userMessagesBuffer = << >>
    /\ history = << >>
    /\ cwReq = NoCwReq

\* BuildCodeWhispererRequest is called with a request
BuildInit ==
    /\ anthropicReq \in BuildRequests
    /\ bpc = "start"
    /\ idx = 0
    /\ userMessagesBuffer = << >>
    /\ history = << >>
    /\ cwReq = NoCwReq

lastMessage == anthropicReq.Messages[Len(anthropicReq.Messages)]

\* the model id sent upstream
modelId ==
    IF anthropicReq.Model \in DOMAIN ModelMap THEN ModelMap[anthropicReq.Model]
    ELSE anthropicReq.Model

\* the content of the current message
CurrentContent(req, last) ==
    LET sys == buildEnhancedSystemPrompt(req)
        wrapped == IF sys # << >>
                   THEN << "<system_mode>" >> \o sys \o << "</system_mode>" >>
                   ELSE << >> IN
    IF last.Role = "user" /\ extractToolResultsFromMessage(last) # << >>
    THEN wrapped
    ELSE (IF sys # << >> THEN wrapped \o << "\n", "\n" >> ELSE << >>)
            \o processMessageContent(last).text

\* BuildCodeWhispererRequest up to the tools: the current message
Build_CurrentMessage ==
    /\ bpc = "start"
    /\ IF Len(anthropicReq.Messages) = 0
       THEN /\ bpc' = "error"
            /\ UNCHANGED cwReq
       ELSE IF processMessageContent(lastMessage).err
       THEN /\ bpc' = "error"
            /\ cwReq' = [cwReq EXCEPT !.ConversationId = "uuid"]
       ELSE /\ bpc' = "tools"
            /\ cwReq' = [Content |-> CurrentContent(anthropicReq, lastMessage),
                         Images |-> processMessageContent(lastMessage).images,
                         ToolResults |-> IF lastMessage.Role = "user"
                                         THEN extractToolResultsFromMessage(lastMessage)
                                         ELSE << >>,
                         Tools |-> << >>,
                         ModelId |-> modelId,
                         ConversationId |-> "uuid"]
    /\ UNCHANGED << anthropicReq, idx, userMessagesBuffer, history >>
    /\ UNCHANGED nonBuildVars

\* BuildCodeWhispererRequest: the declared tools
Build_Tools ==
    /\ bpc = "tools"
    /\ cwReq' = [cwReq EXCEPT !.Tools = ConvertTools(anthropicReq.Tools)]
    /\ bpc' = IF Len(anthropicReq.Messages) > 1 \/ Len(anthropicReq.Tools) > 0
              THEN "history" ELSE "validate"
    /\ idx' = 0
    /\ UNCHANGED << anthropicReq, userMessagesBuffer, history >>
    /\ UNCHANGED nonBuildVars

historyEndIndex ==
    IF lastMessage.Role = "assistant" THEN Len(anthropicReq.Messages)
    ELSE Len(anthropicReq.Messages) - 1

\* one turn of the history loop, on message i (counted from 0)
Build_HistoryLoop ==
    /\ bpc = "history"
    /\ idx < historyEndIndex
    /\ LET msg == anthropicReq.Messages[idx + 1] IN
       IF msg.Role = "user"
       THEN /\ userMessagesBuffer' = Append(userMessagesBuffer, msg)
            /\ UNCHANGED history
       ELSE IF msg.Role = "assistant" /\ Len(userMessagesBuffer) > 0
       THEN /\ history' = history \o << MergedUserMessage(userMessagesBuffer, modelId),
                                        PairedAssistant(msg) >>
            /\ userMessagesBuffer' = << >>
       ELSE IF msg.Role = "assistant" /\ Len(history) > 0
       THEN /\ history' = MergeOrphan(history, msg)
            /\ UNCHANGED userMessagesBuffer
       ELSE UNCHANGED << history, userMessagesBuffer >>
    /\ idx' = idx + 1
    /\ UNCHANGED << anthropicReq, bpc, cwReq >>
    /\ UNCHANGED nonBuildVars

\* after the loop: user messages left in the buffer are merged and paired
\* with an assistant entry "OK"
Build_HistoryEnd ==
    /\ bpc = "history"
    /\ idx >= historyEndIndex
    /\ IF Len(userMessagesBuffer) > 0
       THEN history' = history \o << MergedUserMessage(userMessagesBuffer, modelId),
                                     AssistantMessage(<< "OK" >>, << >>) >>
       ELSE UNCHANGED history
    /\ userMessagesBuffer' = << >>
    /\ bpc' = "validate"
    /\ UNCHANGED << anthropicReq, idx, cwReq >>
    /\ UNCHANGED nonBuildVars

\* validateCodeWhispererRequest: [ok, Content]
validateCodeWhispererRequest(r) ==
    LET trimmedContent == TrimSpace(r.Content)
        hasImages == r.Images > 0
        hasTools == Len(r.Tools) > 0
        hasToolResults == Len(r.ToolResults) > 0 IN
    IF r.ModelId = "" THEN [ok |-> FALSE, Content |-> r.Content]
    ELSE IF r.ConversationId = "" THEN [ok |-> FALSE, Content |-> r.Content]
    ELSE IF hasToolResults THEN [ok |-> TRUE, Content |-> r.Content]
    ELSE IF trimmedContent = << >> /\ ~hasImages /\ hasTools
         THEN [ok |-> TRUE, Content |-> << "placeholder" >>]
    ELSE IF trimmedContent = << >> /\ ~hasImages
         THEN [ok |-> FALSE, Content |-> r.Content]
    ELSE [ok |-> TRUE, Content |-> r.Content]

\* the final validation and the return
Build_Validate ==
    /\ bpc = "validate"
    /\ LET v == validateCodeWhispererRequest(cwReq) IN
       /\ cwReq' = [cwReq EXCEPT !.Content = v.Content]
       /\ bpc' = IF v.ok THEN "ok" ELSE "error"
    /\ UNCHANGED << anthropicReq, idx, userMessagesBuffer, history >>
    /\ UNCHANGED nonBuildVars

BuildNext ==
    \/ Build_CurrentMessage
    \/ Build_Tools
    \/ Build_HistoryLoop
    \/ Build_HistoryEnd
    \/ Build_Validate

(***************************************************************************)
(* Streaming handler (handleGenericStreamRequest) and the SSE re-emitter    *)
(***************************************************************************)
\* an SSE event: its type and the block index it carries (-1 if none)
Event(type, index) == [type |-> type, index |-> index]

\* the tool-use ids the upstream uses
ToolUseIds == { "t1", "t2" }

\* a decoded upstream event
UpstreamEvent(kind, id) == [kind |-> kind, id |-> id]

\* createAnthropicStreamEvents, as it would be with the ping among the
\* initial events
createAnthropicStreamEvents_WithPing ==
    << Event("message_start", -1), Event("ping", -1) >>

\* createAnthropicStreamEvents
createAnthropicStreamEvents == << Event("message_start", -1) >>

\* createAnthropicFinalEvents, as it would be with a hard-coded
\* content_block_stop for block 0
createAnthropicFinalEvents_HardCodedStop ==
    << Event("content_block_stop", 0), Event("message_delta", -1),
       Event("message_stop", -1) >>

\* createAnthropicFinalEvents
createAnthropicFinalEvents ==
    << Event("message_delta", -1), Event("message_stop", -1) >>

\* no streaming request is being handled
\* a JSON response: HTTP status, error code, and the types of the content
\* blocks of a message
Response(status, code, content) ==
    [status |-> status, code |-> code, content |-> content]

NoResponse == Response(0, "", << >>)

\* the HTTP statuses of an upstream answer that is not 200
UpstreamStatuses == { 400, 403, 429, 500 }

\* what executeCodeWhispererRequest meets: the translator fails (with or
\* without a model-not-found error), the request cannot be sent, or the
\* upstream answers; for an answer that is not 200, whether its body can be
\* read and whether the error mapper maps it to stop reason max_tokens
Outcome(kind, status, readable, mapped) ==
    [kind |-> kind, status |-> status, readable |-> readable, mapped |-> mapped]

NoOutcome == Outcome("none", 0, TRUE, FALSE)

ExecOutcomes ==
    { Outcome(k, 0, TRUE, FALSE) : k \in { "build_error", "model_not_found", "send_error" } }
        \cup { Outcome("upstream", 200, TRUE, FALSE) }
        \cup { Outcome("upstream", st, rd, mp) :
                  st \in UpstreamStatuses, rd \in BOOLEAN, mp \in BOOLEAN }

StreamIdle ==
    /\ spos = "idle"
    /\ frames = << >>
    /\ sent = << >>
    /\ blockStates = << >>
    /\ activeTextIndex = -1
    /\ pingSent = FALSE
    /\ reqStream = FALSE
    /\ httpResponse = NoResponse
    /\ responses = << >>
    /\ stopReason = ""
    /\ maxTokensReported = FALSE
    /\ execOutcome = NoOutcome

\* handleGenericStreamRequest is called
StreamInit ==
    /\ spos = "exec"
    /\ frames = << >>
    /\ sent = << >>
    /\ blockStates = << >>
    /\ activeTextIndex = -1
    /\ pingSent = FALSE
    /\ reqStream \in BOOLEAN
    /\ httpResponse = NoResponse
    /\ responses = << >>
    /\ stopReason = ""
    /\ maxTokensReported = FALSE
    /\ execOutcome = NoOutcome

\* respondError: the default code of a status
respondError(statusCode) ==
    Response(statusCode,
             CASE statusCode = 400 -> "bad_request"
               [] statusCode = 401 -> "unauthorized"
               [] statusCode = 403 -> "forbidden"
               [] statusCode = 404 -> "not_found"
               [] statusCode = 429 -> "rate_limited"
               [] OTHER -> "internal_error",
             << >>)

respondErrorWithCode(statusCode, code) == Response(statusCode, code, << >>)

\* ErrorMapper.SendClaudeError for an error mapped to stop reason max_tokens
SendClaudeError == Response(200, "max_tokens", << >>)

\* handleCodeWhispererError: the error returned and the responses written
handleCodeWhispererError(o, stream) ==
    IF o.status = 200 THEN [err |-> "", status |-> 0, written |-> << >>]
    ELSE IF ~o.readable
    THEN [err |-> "upstream", status |-> o.status,
          written |-> IF stream THEN << >> ELSE << respondError(500) >>]
    ELSE IF o.status = 403
    THEN [err |-> "upstream", status |-> o.status,
          written |-> IF stream THEN << >>
                      ELSE << respondErrorWithCode(403, "forbidden") >>]
    ELSE [err |-> "upstream", status |-> o.status,
          written |-> IF stream THEN << >>
                      ELSE IF o.mapped THEN << SendClaudeError >>
                      ELSE << respondErrorWithCode(500, "cw_error") >>]

\* buildCodeWhispererRequest: the error returned and the responses written
buildCodeWhispererRequest(o) ==
    IF o.kind = "model_not_found"
    THEN [err |-> "model_not_found", status |-> 0,
          written |-> << Response(400, "model_not_found", << >>) >>]
    ELSE IF o.kind = "build_error"
    THEN [err |-> "error", status |-> 0, written |-> << >>]
    ELSE [err |-> "", status |-> 0, written |-> << >>]

\* executeCodeWhispererRequest: the error returned and the responses written,
\* those of buildCodeWhispererRequest and handleCodeWhispererError included
executeCodeWhispererRequest_RespondsInStream(o, stream) ==
    LET b == buildCodeWhispererRequest(o) IN
    IF b.err = "model_not_found" THEN b
    ELSE IF b.err # ""
    THEN [b EXCEPT !.written = b.written \o << respondError(500) >>]
    ELSE IF o.kind = "send_error"
    THEN [err |-> "error", status |-> 0,
          written |-> b.written \o << respondError(500) >>]
    ELSE LET h == handleCodeWhispererError(o, stream) IN
         [h EXCEPT !.written = b.written \o h.written]

executeCodeWhispererRequest(o, stream) ==
    LET b == buildCodeWhispererRequest(o) IN
    IF b.err = "model_not_found" THEN b
    ELSE IF b.err # ""
    THEN [b EXCEPT !.written = b.written \o (IF stream THEN << >>
                                             ELSE << respondError(500) >>)]
    ELSE IF o.kind = "send_error"
    THEN [err |-> "error", status |-> 0,
          written |-> b.written \o (IF stream THEN << >>
                                    ELSE << respondError(500) >>)]
    ELSE LET h == handleCodeWhispererError(o, stream) IN
         [h EXCEPT !.written = b.written \o h.written]

\* the responses a call of c.JSON adds, none for NoResponse
Written(resp) == IF resp = NoResponse THEN << >> ELSE << resp >>

\* handleGenericStreamRequest returning without an answer
StreamErrorResponse_Silent(r) == NoResponse

\* handleGenericStreamRequest: the response it writes after a failed
\* execCWRequest, none on a model-not-found error
StreamErrorResponse(r) ==
    IF r.err = "model_not_found" THEN NoResponse
    ELSE IF r.err = "upstream" THEN respondErrorWithCode(r.status, "upstream_error")
    ELSE respondError(502)

\* execCWRequest / executeCodeWhispererRequest: on failure a JSON error is
\* returned and no SSE is started
Stream_Exec(o) ==
    /\ spos = "exec"
    /\ LET r == executeCodeWhispererRequest(o, reqStream)
           all == r.written \o (IF reqStream /\ r.err # ""
                                THEN Written(StreamErrorResponse(r)) ELSE << >>) IN
       IF r.err = ""
       THEN /\ spos' = IF reqStream THEN "initial" ELSE "read"
            /\ UNCHANGED << httpResponse, responses >>
       ELSE /\ spos' = "http_error"
            /\ responses' = responses \o all
            /\ httpResponse' = IF all = << >> THEN NoResponse ELSE all[1]
    /\ UNCHANGED << frames, sent, blockStates, activeTextIndex, pingSent >>
    /\ execOutcome' = o
    /\ UNCHANGED << reqStream, stopReason, maxTokensReported >>
    /\ UNCHANGED nonStreamVars

\* initializeSSEResponse, NewStreamProcessorContext, sendInitialEvents
Stream_SendInitialEvents ==
    /\ spos = "initial"
    /\ sent' = sent \o createAnthropicStreamEvents
    /\ spos' = "process"
    /\ UNCHANGED << frames, blockStates, activeTextIndex, pingSent >>
    /\ UNCHANGED handlerVars
    /\ UNCHANGED nonStreamVars

\* a write to the client or a read of the upstream body fails: the handler
\* returns
Stream_Abort ==
    /\ spos \in { "initial", "process" }
    /\ spos' = "aborted"
    /\ UNCHANGED << frames, sent, blockStates, activeTextIndex, pingSent >>
    /\ UNCHANGED handlerVars
    /\ UNCHANGED nonStreamVars

\* content_block_start of a new block, and the ping after the first one
OpenBlock(index, ping) ==
    << Event("content_block_start", index) >>
        \o (IF ping THEN << >> ELSE << Event("ping", -1) >>)

Accepting == spos = "process" /\ Len(frames) < MaxFrames

\* the index of the tool-use block of a tool-use id, -1 if none
ToolIndex(id) ==
    IF \E i \in 1..Len(blockStates) : blockStates[i].id = id
    THEN (CHOOSE i \in 1..Len(blockStates) : blockStates[i].id = id) - 1
    ELSE -1

ToolOpen(id) == ToolIndex(id) >= 0 /\ ~blockStates[ToolIndex(id) + 1].closed

\* an assistant text chunk
Process_Text ==
    /\ Accepting
    /\ frames' = Append(frames, UpstreamEvent("text", ""))
    /\ IF activeTextIndex = -1
       THEN /\ sent' = sent \o OpenBlock(Len(blockStates), pingSent)
                            \o << Event("content_block_delta", Len(blockStates)) >>
            /\ blockStates' = Append(blockStates,
                                     [type |-> "text", closed |-> FALSE, id |-> ""])
            /\ activeTextIndex' = Len(blockStates)
            /\ pingSent' = TRUE
       ELSE /\ sent' = Append(sent, Event("content_block_delta", activeTextIndex))
            /\ UNCHANGED << blockStates, activeTextIndex, pingSent >>
    /\ UNCHANGED spos
    /\ UNCHANGED handlerVars
    /\ UNCHANGED nonStreamVars

\* a tool use begins: the open text block is closed, a tool_use block opened
Process_ToolBegin(id) ==
    /\ Accepting
    /\ ToolIndex(id) = -1
    /\ frames' = Append(frames, UpstreamEvent("tool_begin", id))
    /\ LET closeText == IF activeTextIndex # -1
                        THEN << Event("content_block_stop", activeTextIndex) >>
                        ELSE << >>
           closedStates == IF activeTextIndex # -1
                           THEN [blockStates EXCEPT ![activeTextIndex + 1].closed = TRUE]
                           ELSE blockStates IN
       /\ sent' = sent \o closeText \o OpenBlock(Len(blockStates), pingSent)
       /\ blockStates' = Append(closedStates,
                                [type |-> "tool_use", closed |-> FALSE, id |-> id])
    /\ activeTextIndex' = -1
    /\ pingSent' = TRUE
    /\ UNCHANGED spos
    /\ UNCHANGED handlerVars
    /\ UNCHANGED nonStreamVars

\* an input fragment of an open tool use
Process_ToolInput(id) ==
    /\ Accepting
    /\ ToolOpen(id)
    /\ frames' = Append(frames, UpstreamEvent("tool_input", id))
    /\ sent' = Append(sent, Event("content_block_delta", ToolIndex(id)))
    /\ UNCHANGED << spos, blockStates, activeTextIndex, pingSent >>
    /\ UNCHANGED handlerVars
    /\ UNCHANGED nonStreamVars

\* a tool use ends
Process_ToolEnd(id) ==
    /\ Accepting
    /\ ToolOpen(id)
    /\ frames' = Append(frames, UpstreamEvent("tool_end", id))
    /\ sent' = Append(sent, Event("content_block_stop", ToolIndex(id)))
    /\ blockStates' = [blockStates EXCEPT ![ToolIndex(id) + 1].closed = TRUE]
    /\ UNCHANGED << spos, activeTextIndex, pingSent >>
    /\ UNCHANGED handlerVars
    /\ UNCHANGED nonStreamVars

\* AnthropicStreamSender.SendError writing nothing
SendError_Nothing == << >>

\* AnthropicStreamSender.SendError
SendError == << Event("error", -1) >>

\* an upstream error or exception frame
Process_Error ==
    /\ Accepting
    /\ frames' = Append(frames, UpstreamEvent("error", ""))
    /\ sent' = sent \o SendError \o << Event("message_stop", -1) >>
    /\ spos' = "errored"
    /\ UNCHANGED << blockStates, activeTextIndex, pingSent >>
    /\ UNCHANGED handlerVars
    /\ UNCHANGED nonStreamVars

\* the upstream reports that the output hit the token limit
Process_MaxTokens ==
    /\ Accepting
    /\ ~maxTokensReported
    /\ frames' = Append(frames, UpstreamEvent("max_tokens", ""))
    /\ maxTokensReported' = TRUE
    /\ UNCHANGED << spos, sent, blockStates, activeTextIndex, pingSent >>
    /\ UNCHANGED << reqStream, httpResponse, responses, stopReason, execOutcome >>
    /\ UNCHANGED nonStreamVars

\* the stop reason manager
NewStopReasonManager ==
    [hasActiveToolCalls |-> FALSE, hasCompletedTools |-> FALSE,
     maxTokensReached |-> FALSE]

UpdateToolCallStatus(m, hasActiveCalls, hasCompleted) ==
    [m EXCEPT !.hasActiveToolCalls = hasActiveCalls,
              !.hasCompletedTools = hasCompleted]

UpdateMaxTokens(m, reached) == [m EXCEPT !.maxTokensReached = reached]

DetermineStopReason(m) ==
    IF m.hasActiveToolCalls \/ m.hasCompletedTools THEN "tool_use"
    ELSE IF m.maxTokensReached THEN "max_tokens"
    ELSE "end_turn"

\* the content_block_stop events of the blocks still open, in index order
RECURSIVE CloseOpenBlocks(_, _)
CloseOpenBlocks(states, i) ==
    IF i > Len(states) THEN << >>
    ELSE (IF states[i].closed THEN << >>
          ELSE << Event("content_block_stop", i - 1) >>)
            \o CloseOpenBlocks(states, i + 1)

\* the upstream stream ends: sendFinalEvents
Stream_SendFinalEvents ==
    /\ spos = "process"
    /\ sent' = sent \o CloseOpenBlocks(blockStates, 1) \o createAnthropicFinalEvents
    /\ blockStates' = [i \in 1..Len(blockStates) |->
                          [blockStates[i] EXCEPT !.closed = TRUE]]
    /\ activeTextIndex' = -1
    /\ spos' = "done"
    /\ LET sawToolUse == \E i \in 1..Len(blockStates) : blockStates[i].type = "tool_use" IN
       stopReason' = DetermineStopReason(
                        UpdateMaxTokens(
                           UpdateToolCallStatus(NewStopReasonManager, sawToolUse, sawToolUse),
                           maxTokensReported))
    /\ UNCHANGED << frames, pingSent, reqStream, httpResponse, responses,
                    maxTokensReported, execOutcome >>
    /\ UNCHANGED nonStreamVars

\* the bodies of an upstream answer to a non-streaming request: whether it
\* has text, the tool uses it has, whether it reports max_tokens
NonStreamBodies ==
    [text : BOOLEAN, tools : SUBSET ToolUseIds, maxTokens : BOOLEAN]

\* the tool_use blocks of the tools of the tool manager
RECURSIVE ToolUseBlocks(_)
ToolUseBlocks(allTools) ==
    IF allTools = { } THEN << >>
    ELSE LET t == CHOOSE t \in allTools : TRUE IN
         << "tool_use" >> \o ToolUseBlocks(allTools \ { t })

\* handleNonStreamRequest after the upstream call: the body is read and
\* parsed, the message is built and answered
NonStream_Respond(body) ==
    /\ spos = "read"
    /\ LET allTools == body.tools
           sawToolUse == Cardinality(allTools) > 0
           contexts == (IF body.text THEN << "text" >> ELSE << >>)
                          \o ToolUseBlocks(allTools)
           stopReasonManager ==
               UpdateToolCallStatus(NewStopReasonManager, sawToolUse, sawToolUse) IN
       /\ stopReason' = DetermineStopReason(stopReasonManager)
       /\ httpResponse' = Response(200, "", contexts)
       /\ responses' = Append(responses, Response(200, "", contexts))
    /\ maxTokensReported' = body.maxTokens
    /\ spos' = "done"
    /\ UNCHANGED << frames, sent, blockStates, activeTextIndex, pingSent, reqStream,
                    execOutcome >>
    /\ UNCHANGED nonStreamVars

\* handleNonStreamRequest: the body cannot be read, the parser fails, or the
\* parse runs into the 600 second timeout
NonStream_Fail(kind) ==
    /\ spos = "read"
    /\ LET resp == CASE kind = "read" -> respondError(500)
                      [] kind = "timeout" -> Response(408, "parsing_error", << >>)
                      [] kind = "format" -> Response(400, "parsing_error", << >>)
                      [] OTHER -> Response(500, "parsing_error", << >>) IN
       /\ httpResponse' = resp
       /\ responses' = Append(responses, resp)
    /\ spos' = "http_error"
    /\ UNCHANGED << frames, sent, blockStates, activeTextIndex, pingSent >>
    /\ UNCHANGED << reqStream, stopReason, maxTokensReported, execOutcome >>
    /\ UNCHANGED nonStreamVars

StreamNext ==
    \/ \E o \in ExecOutcomes : Stream_Exec(o)
    \/ Stream_SendInitialEvents
    \/ Stream_Abort
    \/ Process_Text
    \/ \E id \in ToolUseIds : Process_ToolBegin(id)
    \/ \E id \in ToolUseIds : Process_ToolInput(id)
    \/ \E id \in ToolUseIds : Process_ToolEnd(id)
    \/ Process_Error
    \/ Process_MaxTokens
    \/ Stream_SendFinalEvents
    \/ \E body \in NonStreamBodies : NonStream_Respond(body)
    \/ \E kind \in { "read", "parse", "timeout", "format" } : NonStream_Fail(kind)

(***************************************************************************)
(* Chat trigger type (determineChatTriggerType)                            *)
(*                                                                         *)
(* AnthropicRequest.ToolChoice is an `any`.  A value of it is a record     *)
(* [t, typeKind, Type]: t names the Go type behind the interface, Type is  *)
(* the string itself (t = "string"), the string under the key "type"       *)
(* (t = "map", typeKind = "string") or the field Type of the ToolChoice.   *)
(***************************************************************************)
Choice(t, kind, type) == [t |-> t, typeKind |-> kind, Type |-> type]

\* the values a tool_choice can have: none, a string, a map whose "type" is
\* absent, is no string or is a string, a *types.ToolChoice, a nil
\* *types.ToolChoice, a types.ToolChoice value, and any other JSON value
ToolChoices ==
    { Choice("nil", "absent", "") }
       \cup { Choice("string", "string", s) : s \in { "auto", "any", "none", "tool" } }
       \cup { Choice("map", "absent", ""), Choice("map", "number", "") }
       \cup { Choice("map", "string", s) : s \in { "auto", "any", "none", "tool" } }
       \cup { Choice("pointer", "string", s) : s \in { "auto", "any", "tool" } }
       \cup { Choice("nilpointer", "absent", "") }
       \cup { Choice("struct", "string", s) : s \in { "auto", "any" } }
       \cup { Choice("number", "absent", "") }

TriggerRequests == [Tools : ToolLists, ToolChoice : ToolChoices]

\* tc.Type == "any" || tc.Type == "tool"
ForcesTool(type) == type \in { "any", "tool" }

determineChatTriggerType(req) ==
    LET tc == req.ToolChoice IN
    IF Len(req.Tools) > 0 /\ tc.t # "nil"
    THEN IF tc.t = "pointer"
         THEN (IF ForcesTool(tc.Type) THEN "AUTO" ELSE "MANUAL")
         ELSE IF tc.t = "map"
         THEN (IF tc.typeKind = "string" /\ ForcesTool(tc.Type)
               THEN "AUTO" ELSE "MANUAL")
         ELSE "MANUAL"
    ELSE "MANUAL"

NoTriggerRequest == [Tools |-> << >>, ToolChoice |-> Choice("nil", "absent", "")]

TriggerIdle == triggerReq = NoTriggerRequest /\ chatTriggerType = ""

\* BuildCodeWhispererRequest is called with a request
TriggerInit == triggerReq \in TriggerRequests /\ chatTriggerType = ""

\* BuildCodeWhispererRequest sets cwReq.ConversationState.ChatTriggerType
SetChatTriggerType ==
    /\ chatTriggerType = ""
    /\ chatTriggerType' = determineChatTriggerType(triggerReq)
    /\ UNCHANGED << triggerReq, nonTriggerVars >>

TriggerNext == SetChatTriggerType

(***************************************************************************)
(* Token estimator (getClaudeTokenizer, NewTokenEstimator, countTokens)    *)
(*                                                                         *)
(* A text is a Go string: a sequence of bytes.  The bytes used are 97      *)
(* ("a"), 195 and 169 (the two bytes of U+00E9), so that the number of     *)
(* code points differs from the number of bytes.                           *)
(***************************************************************************)
TextBytes == { 97, 195, 169 }

\* bytes of a text given to the estimator
MaxTextLen == 3

\* ids the tokenizer returns for one text
MaxIds == 4

Texts == UNION { [1..n -> TextBytes] : n \in 0..MaxTextLen }

\* len([]rune(text)): a lead byte with its continuation byte is one code
\* point, every other byte (ASCII, or invalid on its own) is one
RECURSIVE RuneCount(_)
RuneCount(text) ==
    IF text = << >> THEN 0
    ELSE IF Len(text) >= 2 /\ text[1] = 195 /\ text[2] = 169
    THEN 1 + RuneCount(SubSeq(text, 3, Len(text)))
    ELSE 1 + RuneCount(Tail(text))

\* the process after start-up, no request being counted
EstimatorIdle ==
    /\ initOnce = FALSE
    /\ initErr = FALSE
    /\ estText = << >>
    /\ estPc = "idle"
    /\ tokenCount = -1

\* a request arrives at its handler
EstimatorInit ==
    /\ initOnce = FALSE
    /\ initErr = FALSE
    /\ estText \in Texts
    /\ estPc = "new"
    /\ tokenCount = -1

\* NewTokenEstimator: getClaudeTokenizer initialises the tokenizer once, with
\* or without an error, and returns the error it keeps; an error panics
NewTokenEstimator(failed) ==
    /\ estPc = "new"
    /\ LET err == IF initOnce THEN initErr ELSE failed IN
       /\ initErr' = err
       /\ estPc' = IF err THEN "panicked" ELSE "count"
    /\ initOnce' = TRUE
    /\ UNCHANGED << estText, tokenCount >>
    /\ UNCHANGED nonEstimatorVars

\* EstimateTextTokens: 0 for the empty text, else countTokens: the number of
\* ids of the encoding, or the number of code points if encoding fails
CountText(failed, ids) ==
    /\ estPc = "count"
    /\ tokenCount' = IF estText = << >> THEN 0
                     ELSE IF failed THEN RuneCount(estText)
                     ELSE ids
    /\ estPc' = "answered"
    /\ UNCHANGED << initOnce, initErr, estText >>
    /\ UNCHANGED nonEstimatorVars

\* the next request arrives
NextRequest(text) ==
    /\ estPc \in { "answered", "panicked" }
    /\ estText' = text
    /\ estPc' = "new"
    /\ tokenCount' = -1
    /\ UNCHANGED << initOnce, initErr >>
    /\ UNCHANGED nonEstimatorVars

EstimatorNext ==
    \/ \E failed \in BOOLEAN : NewTokenEstimator(failed)
    \/ \E failed \in BOOLEAN : \E ids \in 1..MaxIds : CountText(failed, ids)
    \/ \E text \in Texts : NextRequest(text)

(***************************************************************************)
(* Specifications                                                          *)
(***************************************************************************)
\* the server after start-up, no request body being parsed
Init == TokenInit /\ CacheInit /\ ParserIdle /\ BuildIdle /\ StreamIdle /\ SchemaIdle /\ RewriterInit
       /\ ParseIdle /\ TriggerIdle /\ EstimatorIdle

\* the parser at the start of an upstream body
InitParser ==
    TokenInit /\ CacheInit /\ ParserInit /\ BuildIdle /\ StreamIdle /\ SchemaIdle /\ RewriterInit
       /\ ParseIdle /\ TriggerIdle /\ EstimatorIdle

\* a call of BuildCodeWhispererRequest
InitBuild ==
    TokenInit /\ CacheInit /\ ParserIdle /\ BuildInit /\ StreamIdle /\ SchemaIdle /\ RewriterInit
       /\ ParseIdle /\ TriggerIdle /\ EstimatorIdle

\* a call of handleGenericStreamRequest
InitStream ==
    TokenInit /\ CacheInit /\ ParserIdle /\ BuildIdle /\ StreamInit /\ SchemaIdle /\ RewriterInit
       /\ ParseIdle /\ TriggerIdle /\ EstimatorIdle

InitSchema ==
    TokenInit /\ CacheInit /\ ParserIdle /\ BuildIdle /\ StreamIdle /\ SchemaInit /\ RewriterInit
       /\ ParseIdle /\ TriggerIdle /\ EstimatorIdle

InitParse ==
    TokenInit /\ CacheInit /\ ParserIdle /\ BuildIdle /\ StreamIdle /\ SchemaIdle /\ RewriterInit
       /\ ParseInit /\ TriggerIdle /\ EstimatorIdle

InitTrigger ==
    TokenInit /\ CacheInit /\ ParserIdle /\ BuildIdle /\ StreamIdle /\ SchemaIdle /\ RewriterInit
       /\ ParseIdle /\ TriggerInit /\ EstimatorIdle

InitEstimator ==
    TokenInit /\ CacheInit /\ ParserIdle /\ BuildIdle /\ StreamIdle /\ SchemaIdle /\ RewriterInit
       /\ ParseIdle /\ TriggerIdle /\ EstimatorInit

SpecTrigger == InitTrigger /\ [][TriggerNext]_vars

SpecEstimator == InitEstimator /\ [][EstimatorNext]_vars

SpecRewriter == Init /\ [][RewriterNext]_vars

SpecParse == InitParse /\ [][ParseNext]_vars

SpecToken == Init /\ [][TokenNext]_vars

SpecCache == Init /\ [][CacheNext]_vars

SpecParser == InitParser /\ [][ParserNext]_vars

SpecBuild == InitBuild /\ [][BuildNext]_vars

SpecStream == InitStream /\ [][StreamNext]_vars

SpecSchema == InitSchema /\ [][SchemaNext]_vars

(***************************************************************************)
(* Token manager: properties                                               *)
(***************************************************************************)
\* C5 (as stated): in one 45-minute window, with no 403-driven InvalidateToken
\* in between, the refresh endpoint is called at most once per credential,
\* concurrent requests before the first exchange completes included
C5_AtMostOneRefreshPerWindow == \A h \in Hashes : calls[h] <= 1

\* two requests with the same credential have both missed the cache and both
\* called the refresh endpoint; no 403 has occurred
C5_ConcurrentMisses ==
    /\ revoked = {} /\ invalidated = {} /\ tick = 0
    /\ \E r1, r2 \in Requests :
          /\ r1 # r2 /\ cred[r1] = cred[r2]
          /\ pc[r1] = "store" /\ pc[r2] = "store"

\* a request returns from GetOrRefreshToken with a token it exchanged itself
StoreStep(r) == pc[r] = "store" /\ pc'[r] = "handler"

\* RefreshAllTokens applies the result of a successful exchange
ApplyStep == rpc = "apply" /\ rpc' # "apply" /\ newToken # 0

\* C6 (amended): right after a successful exchange of GetOrRefreshToken the
\* cache holds exactly one entry for the credential, under sha256(credential),
\* with the exchanged token, and no other key was touched; right after a
\* successful exchange of RefreshAllTokens the entry holds the new token if
\* it was still cached, and stays absent if InvalidateToken removed it
\* meanwhile
C6_EntryAfterExchange ==
    [][ /\ \A r \in Requests : StoreStep(r) =>
              /\ DOMAIN tokenMap' = DOMAIN tokenMap \cup {sha256Hash(cred[r])}
              /\ heap'[tokenMap'[sha256Hash(cred[r])]].AccessToken = exchanged[r]
              /\ \A h \in DOMAIN tokenMap \ {sha256Hash(cred[r])} :
                    /\ tokenMap'[h] = tokenMap[h]
                    /\ heap'[tokenMap'[h]] = heap[tokenMap[h]]
        /\ ApplyStep =>
              /\ DOMAIN tokenMap' = DOMAIN tokenMap
              /\ cur \in DOMAIN tokenMap =>
                    heap'[tokenMap'[cur]].AccessToken = newToken
      ]_vars

\* C6 (as stated): right after any successful exchange, of GetOrRefreshToken
\* or of RefreshAllTokens, the cache holds an entry under sha256(credential)
C6_EntryAfterAnyExchange ==
    [][ /\ \A r \in Requests : StoreStep(r) =>
              sha256Hash(cred[r]) \in DOMAIN tokenMap'
        /\ ApplyStep => cur \in DOMAIN tokenMap'
      ]_vars

\* the refresher holds a fresh token for an entry that InvalidateToken removed
\* after the snapshot
C6_InvalidatedDuringRefresh ==
    /\ rpc = "apply" /\ newToken # 0
    /\ cur \notin DOMAIN tokenMap
    /\ cur \in invalidated

\* the handler of request r gets a 403 from upstream
ForbiddenStep(r) == pc[r] = "handler" /\ pc'[r] = "done" /\ response'[r] = 403

\* GetOrRefreshToken's lookup for request r
LookupStep(r) == pc[r] = "check" /\ pc'[r] # "check"

HitStep(w) == wpc[w] = "hit" /\ wpc'[w] = "block"

\* processContentBlock finishes a block on which Get reported a miss
MissStep(w) == wpc[w] = "miss" /\ wpc'[w] = "block"

\* C8: processContentBlock adds, on a hit, the token count stored in the entry
\* to CacheReadTokens and nothing to CacheCreationTokens; on a miss of a block
\* marked ephemeral, the block's computed token count to CacheCreationTokens
\* and nothing to CacheReadTokens; on a miss of an unmarked block, nothing
C8_TokenAccounting ==
    [][ \A w \in Workers :
          /\ HitStep(w) =>
                /\ result'[w].CacheReadTokens =
                      result[w].CacheReadTokens + objects[entry[w]].Tokens
                /\ result'[w].CacheCreationTokens = result[w].CacheCreationTokens
          /\ MissStep(w) =>
                /\ result'[w].CacheReadTokens = result[w].CacheReadTokens
                /\ result'[w].CacheCreationTokens =
                      result[w].CacheCreationTokens +
                         (IF Head(blocks[w]).kind # "string"
                             /\ Head(blocks[w]).cc.present
                             /\ Head(blocks[w]).cc.Type = "ephemeral"
                          THEN BlockTokens(Head(blocks[w])) ELSE 0)
      ]_vars

\* a hit has been counted whose stored token count differs from the count
\* computed for the block that hit
C8_HitCountedStoredTokens ==
    \E w \in Workers :
        /\ wpc[w] = "block"
        /\ blocks[w] = << >>
        /\ result[w].CacheReadTokens = 3
        /\ result[w].CacheCreationTokens = 0

\* Get returns a hit to worker w
GetHitStep(w) == wpc[w] = "get_refresh" /\ wpc'[w] = "hit"

\* C9 (as stated): right after Get reports a hit on a hash, the cache holds
\* the hash with an expiry of at least the access time plus the duration of
\* the entry's stored TTL, whatever the sweeper and other Gets do meanwhile
C9_HitLeavesFreshEntry ==
    [][ \A w \in Workers :
          GetHitStep(w) =>
              /\ CurrentHash(w) \in DOMAIN entries'
              /\ objects'[entries'[CurrentHash(w)]].ExpTime >=
                    calculateExpTime(objects[entry[w]].TTL, now)
      ]_vars

\* Get is about to renew and report an entry that is no longer in the cache
C9_RefreshOfRemovedEntry ==
    \E w \in Workers :
        /\ wpc[w] = "get_refresh"
        /\ CurrentHash(w) \notin DOMAIN entries

\* the block worker w is processing carries cache_control.type == ephemeral
\* (a string content is processed without its marker)
EphemeralBlock(w) ==
    /\ Head(blocks[w]).kind # "string"
    /\ Head(blocks[w]).cc.present
    /\ Head(blocks[w]).cc.Type = "ephemeral"

\* a step after which some hash is held that was not, or is held by another
\* entry object
EntryCreated ==
    \E h \in DOMAIN entries' : h \notin DOMAIN entries \/ entries'[h] # entries[h]

\* every entry object kept by the step has the token count and TTL it had
StoredFieldsKept ==
    \A i \in DOMAIN objects' \cap DOMAIN objects :
        /\ objects'[i].Tokens = objects[i].Tokens
        /\ objects'[i].TTL = objects[i].TTL

CreatedOnlyByEphemeralMiss ==
    [][ /\ EntryCreated => \E w \in Workers : MissStep(w) /\ EphemeralBlock(w)
        /\ \A w \in Workers :
              (GetHitStep(w) \/ HitStep(w)) =>
                  /\ entries' = entries
                  /\ DOMAIN objects' \subseteq DOMAIN objects
                  /\ StoredFieldsKept
      ]_vars

\* C27: an entry is created only by the miss of a block that carries
\* cache_control.type == ephemeral: while no request holding such a block has
\* been processed the cache is empty, and a lookup that hits creates no entry
\* and changes no entry's stored token count or TTL label
C27_EntriesOnlyFromEphemeralMiss ==
    /\ [](~marked => entries = EmptyMap)
    /\ CreatedOnlyByEphemeralMiss

\* an unmarked block hits the entry a marked block of the same text created
C27_UnmarkedBlockHits ==
    \E w \in Workers :
        /\ wpc[w] = "hit"
        /\ Head(blocks[w]).kind = "string"
        /\ CurrentHash(w) \in DOMAIN entries
        /\ objects[entry[w]].Tokens # BlockTokens(Head(blocks[w]))

\* Get tests the expiry of the entry it read, or CleanExpired runs
CheckStep(w) == wpc[w] = "get_check" /\ wpc'[w] # "get_check"

DeleteStep(w) == wpc[w] = "get_delete" /\ wpc'[w] # "get_delete"

CleanStep ==
    /\ globalCache = "set"
    /\ UNCHANGED << globalCache, now, wpc, blocks, entry, result, marked >>

Expired(i) == now > objects[i].ExpTime

\* C28: an entry whose expiry has passed produces no hit: Get, finding the
\* entry it looked up expired, removes the hash from the cache and reports a
\* miss, and reports a hit only for an entry it found unexpired; CleanExpired
\* removes every entry whose expiry has passed and no other
C28_ExpiredNeverHits ==
    [][ /\ \A w \in Workers :
              /\ CheckStep(w) /\ Expired(entry[w]) => wpc'[w] = "get_delete"
              /\ CheckStep(w) /\ ~Expired(entry[w]) => wpc'[w] = "get_refresh"
              /\ DeleteStep(w) =>
                    /\ wpc'[w] = "miss"
                    /\ CurrentHash(w) \notin DOMAIN entries'
              /\ wpc'[w] = "hit" /\ wpc[w] # "hit" => wpc[w] = "get_refresh"
              /\ wpc'[w] = "get_refresh" /\ wpc[w] # "get_refresh" =>
                    CheckStep(w) /\ ~Expired(entry[w])
        /\ CleanStep =>
              /\ DOMAIN entries' = { h \in DOMAIN entries : ~Expired(entries[h]) }
              /\ \A h \in DOMAIN entries' : entries'[h] = entries[h]
      ]_vars

\* Get has found the entry it looked up expired and is about to remove it
C28_ExpiredEntryFound ==
    \E w \in Workers :
        /\ wpc[w] = "get_delete"
        /\ CurrentHash(w) \in DOMAIN entries
        /\ entries[CurrentHash(w)] = entry[w]
        /\ Expired(entry[w])

(***************************************************************************)
(* EventStream parser: properties                                          *)
(***************************************************************************)
\* C4: however the byte string is cut into consecutive chunks, the messages
\* ParseStream returns for the chunks, concatenated in order, are the
\* messages it returns when given the whole byte string in a single call
C4_PartitionInvariance ==
    fed = Len(input) =>
        out = parseStreamWithBuffer(<< >>, 0, maxErrors, input).messages

\* a byte string with a frame that fails validation and a frame that decodes
\* has been fed in MaxChunks chunks or more
C4_ChunkedFrameDecoded ==
    /\ fed = Len(input)
    /\ chunks = MaxChunks
    /\ errorCount > 0
    /\ Len(out) > 0

\* the buffer a ParseStream step works on: what was buffered and the chunk fed
Fed == buffer \o SubSeq(input, fed + 1, fed')

\* the declared total length at the head of a buffer
Declared(buf) == Uint32(Slice(buf, 0, 4))

\* this ParseStream step ends as the loop does on buffer buf with the given
\* messages and error count
ResumesFrom(buf, messages, errors) ==
    LET r == ParseLoop(buf, messages, errors) IN
    /\ buffer' = r.buffer
    /\ errorCount' = r.errorCount
    /\ out' = out \o r.messages

\* C18, as the code has it: when the buffer holds 16 bytes or more and the
\* declared total length at its head is below 16 or above 16 MiB, the parser
\* drops exactly one byte and counts one error before it looks for the next
\* frame; with fewer than 16 bytes buffered it drops nothing
C18_SkipsOneByte ==
    [][fed' > fed =>
         /\ (Len(Fed) >= EventStreamMinMessageSize /\ Implausible(Declared(Fed)))
               => ResumesFrom(Slice(Fed, 1, Len(Fed)), << >>, errorCount + 1)
         /\ Len(Fed) < EventStreamMinMessageSize
               => (buffer' = Fed /\ errorCount' = errorCount)]_vars

\* C18: when the declared total length at the head of the buffer is below 16
\* or above 16 MiB, the parser advances the buffer by exactly 4 bytes and
\* increments its error count by one before looking for the next frame
C18_SkipsFourBytes ==
    [][fed' > fed =>
         ((Len(Fed) >= EventStreamMinMessageSize /\ Implausible(Declared(Fed)))
             => ResumesFrom(Slice(Fed, 4, Len(Fed)), << >>, errorCount + 1))]_vars

\* a body that starts with an implausible length has been fed: the parser
\* dropped its first byte, counted one error and waits on what remains
C18_OneByteDropped ==
    /\ fed = Len(input)
    /\ Len(input) >= EventStreamMinMessageSize
    /\ Implausible(Declared(input))
    /\ buffer = Slice(input, 1, Len(input))
    /\ errorCount = 1

\* the declared total length at the head of buf is one a frame can have, and
\* buf holds fewer bytes than it declares
Waiting(buf) ==
    /\ Len(buf) >= 4
    /\ ~Implausible(Declared(buf))
    /\ Len(buf) < Declared(buf)

\* a ParseStream step that still lacks bytes of the frame at the head of the
\* buffer consumes nothing, counts no error and returns no message
IncompleteFrameKept ==
    Waiting(Fed) => (buffer' = Fed /\ errorCount' = errorCount /\ out' = out)

\* the bytes of the frame at the head of buf, and the bytes after it
HeadFrame(buf) == Slice(buf, 0, Declared(buf))

AfterHeadFrame(buf) == Slice(buf, Declared(buf), Len(buf))

\* C19, as the code has it: a frame of plausible declared length that is not
\* whole yet is left in the buffer untouched and no error is counted; the
\* call that supplies its remaining bytes consumes it whole, returning it as
\* its first message if it passes validation and counting one error if not
C19_IncompleteFrameProcessedLater ==
    [][fed' > fed =>
         /\ IncompleteFrameKept
         /\ (Waiting(buffer) /\ Len(Fed) >= Declared(buffer)) =>
               LET r == parseSingleMessageWithValidation(HeadFrame(Fed)) IN
               IF r.ok
               THEN ResumesFrom(AfterHeadFrame(Fed), << r.message >>, errorCount)
               ELSE ResumesFrom(AfterHeadFrame(Fed), << >>, errorCount + 1)]_vars

\* C19: when the declared total length is within [16, 16 MiB] but the buffer
\* holds fewer bytes than declared, ParseStream returns without consuming any
\* byte of that frame and without counting an error, and the frame is
\* delivered by the later call that supplies its remaining bytes
C19_IncompleteFrameDeliveredLater ==
    [][fed' > fed =>
         /\ IncompleteFrameKept
         /\ (Waiting(buffer) /\ Len(Fed) >= Declared(buffer)) =>
               LET r == parseSingleMessageWithValidation(HeadFrame(Fed)) IN
               /\ r.ok
               /\ Len(out') > Len(out)
               /\ out'[Len(out) + 1] = r.message]_vars

\* a body that is one frame has been fed in two calls or more, and the last
\* of them returned the frame
C19_FrameCompletedByLaterCall ==
    /\ fed = Len(input)
    /\ chunks >= 2
    /\ Len(input) = Declared(input)
    /\ out = << parseSingleMessageWithValidation(input).message >>
    /\ buffer = << >>
    /\ errorCount = 0

\* C20: a ParseStream call never lowers the error count; the call on which
\* the count reaches maxErrors returns an error, and so does every call made
\* once the count has reached it
C20_ErrorCeilingIsTerminal ==
    [][fed' > fed =>
         /\ errorCount' >= errorCount
         /\ errorCount' >= maxErrors => lastError'
         /\ errorCount >= maxErrors => lastError'
         /\ lastError => lastError']_vars

\* ParseStream has returned an error on two calls, the error count being at
\* the ceiling or above it
C20_ErrorReturnedAgain ==
    /\ errorsReturned >= 2
    /\ errorCount >= maxErrors
    /\ lastError

(***************************************************************************)
(* Request translator: properties                                          *)
(***************************************************************************)
\* C3: whenever BuildCodeWhispererRequest succeeds, the history has even
\* length and alternates user, assistant, starting with a user entry
C3_HistoryAlternates ==
    bpc = "ok" =>
        /\ Len(history) % 2 = 0
        /\ \A i \in 1..Len(history) :
              history[i].kind = IF i % 2 = 1 THEN "user" ELSE "assistant"

\* a request that starts with an assistant message and has consecutive
\* assistant and consecutive user messages was built with a history
C3_IrregularRolesBuilt ==
    /\ bpc = "ok"
    /\ Len(history) = 2
    /\ \E i \in 1..(Len(anthropicReq.Messages) - 1) :
          /\ anthropicReq.Messages[i].Role = "assistant"
          /\ anthropicReq.Messages[i + 1].Role = "assistant"
    /\ anthropicReq.Messages[1].Role = "user"
    /\ history[2].Content = << "a", "\n", "b" >>

\* C10: whenever BuildCodeWhispererRequest succeeds, no tool specification of
\* the current message and no tool use of a history assistant entry is named
\* web_search or websearch
C10_NoWebSearch ==
    bpc = "ok" =>
        /\ \A i \in 1..Len(cwReq.Tools) :
              cwReq.Tools[i].Name \notin { "web_search", "websearch" }
        /\ \A i \in 1..Len(history) : \A j \in 1..Len(history[i].ToolUses) :
              history[i].ToolUses[j] \notin { "web_search", "websearch" }

\* a request that declares websearch and whose assistant messages use
\* web_search and websearch was built, its other tools kept
C10_WebSearchDropped ==
    /\ bpc = "ok"
    /\ Len(anthropicReq.Tools) = 2
    /\ anthropicReq.Tools[1].Name = "read"
    /\ anthropicReq.Tools[2].Name = "websearch"
    /\ Len(cwReq.Tools) = 1
    /\ cwReq.Tools[1].Name = "read"
    /\ Len(history) = 2
    /\ history[2].ToolUses = << "read" >>
    /\ \E i \in 1..Len(anthropicReq.Messages) :
          anthropicReq.Messages[i].ToolUses = << "websearch" >>

(***************************************************************************)
(* Streaming handler: properties                                           *)
(***************************************************************************)
Types(events) == [k \in 1..Len(events) |-> events[k].type]

\* one step of the automaton of
\* message_start (content_block_start ping? content_block_delta*
\*                content_block_stop)* message_delta message_stop
\* states: 0 start, 1 between blocks, 2 right after content_block_start,
\* 3 inside a block, 4 after message_delta, 5 after message_stop, -1 rejected
RegexStep(q, type) ==
    CASE q = 0 /\ type = "message_start" -> 1
      [] q = 1 /\ type = "content_block_start" -> 2
      [] q = 1 /\ type = "message_delta" -> 4
      [] q = 2 /\ type \in { "ping", "content_block_delta" } -> 3
      [] q \in { 2, 3 } /\ type = "content_block_stop" -> 1
      [] q = 3 /\ type = "content_block_delta" -> 3
      [] q = 4 /\ type = "message_stop" -> 5
      [] OTHER -> -1

RECURSIVE RegexRun(_, _)
RegexRun(types, q) ==
    IF types = << >> \/ q = -1 THEN q
    ELSE RegexRun(Tail(types), RegexStep(q, Head(types)))

\* every state of the automaton but -1 leads to acceptance
RegexPrefix(events) == RegexRun(Types(events), 0) # -1

Positions(events, type) == { k \in 1..Len(events) : events[k].type = type }

\* ping at most once, and right after the first content_block_start
PingPlacement(events) ==
    LET starts == Positions(events, "content_block_start")
        pings == Positions(events, "ping") IN
    /\ Cardinality(pings) <= 1
    /\ \A k \in pings : k - 1 \in starts /\ \A j \in starts : j >= k - 1
    /\ \A k \in starts :
          (Len(events) > k /\ \A j \in starts : j >= k) => k + 1 \in pings

\* the upstream opens no block while a tool-use block is open
RECURSIVE NoBlockInsideToolUse(_, _)
NoBlockInsideToolUse(fs, open) ==
    IF fs = << >> THEN TRUE
    ELSE LET f == Head(fs) IN
         CASE f.kind = "text" -> open = { } /\ NoBlockInsideToolUse(Tail(fs), open)
           [] f.kind = "tool_begin" ->
                 open = { } /\ NoBlockInsideToolUse(Tail(fs), { f.id })
           [] f.kind = "tool_end" -> NoBlockInsideToolUse(Tail(fs), open \ { f.id })
           [] OTHER -> NoBlockInsideToolUse(Tail(fs), open)

NoErrorFrame(fs) == \A k \in 1..Len(fs) : fs[k].kind # "error"

\* the events of one block index come in the order start, deltas, stop
BlockOrder(events, i) ==
    LET ks == { k \in 1..Len(events) : events[k].index = i } IN
    \A k \in ks :
        /\ events[k].type = "content_block_start" => \A j \in ks : j >= k
        /\ events[k].type = "content_block_stop" => \A j \in ks : j <= k
        /\ events[k].type = "content_block_delta" =>
              \E j \in ks : j < k /\ events[j].type = "content_block_start"

\* C1 as stated: the SSE event types written form a prefix of the regex, with
\* message_start first, message_stop last and the ping right after the first
\* content_block_start
C1_RegexPrefixAlways == RegexPrefix(sent) /\ PingPlacement(sent)

\* C1, amended: message_start is first, message_stop is last, the ping comes
\* at most once and right after the first content_block_start, each block's
\* events are ordered start, deltas, stop, the stream ends with message_delta
\* message_stop or with error message_stop, and the sequence is a prefix of
\* the regex when the upstream sends no error frame and opens no block inside
\* an open tool-use block
C1_StreamShape ==
    /\ \A k \in 1..Len(sent) :
          /\ sent[k].type = "message_start" <=> k = 1
          /\ sent[k].type = "message_stop" =>
                k = Len(sent) /\ sent[k - 1].type \in { "message_delta", "error" }
          /\ sent[k].type \in { "message_delta", "error" } =>
                (k < Len(sent) => sent[k + 1].type = "message_stop")
    /\ PingPlacement(sent)
    /\ \A i \in 0..(Len(blockStates) - 1) : BlockOrder(sent, i)
    /\ (NoErrorFrame(frames) /\ NoBlockInsideToolUse(frames, { })) => RegexPrefix(sent)
    /\ (spos = "done" /\ reqStream) =>
          RegexRun(Types(sent), 0) = 5 \/ ~NoBlockInsideToolUse(frames, { })

\* a stream with a text block and a tool-use block, one after the other, was
\* finalized
C1_TextThenToolFinished ==
    /\ spos = "done"
    /\ NoBlockInsideToolUse(frames, { })
    /\ Len(blockStates) = 2
    /\ \E k \in 1..Len(frames) : frames[k].kind = "tool_input"
    /\ Types(sent)[3] = "ping"
    /\ RegexRun(Types(sent), 0) = 5

Stops(events, i) ==
    { k \in 1..Len(events) : events[k].type = "content_block_stop" /\ events[k].index = i }

Starts(events, i) ==
    { k \in 1..Len(events) : events[k].type = "content_block_start" /\ events[k].index = i }

\* C2: no block receives a second content_block_stop, a block is stopped only
\* after its start, and when message_delta is emitted every block that
\* received content_block_start has received exactly one content_block_stop
C2_BlocksClosedBeforeDelta ==
    /\ \A k \in 1..Len(sent) : sent[k].type = "content_block_stop" =>
          /\ Cardinality(Stops(sent, sent[k].index)) = 1
          /\ \E j \in Starts(sent, sent[k].index) : j < k
    /\ \A k \in Positions(sent, "message_delta") :
          \A j \in 1..Len(sent) : sent[j].type = "content_block_start" =>
              /\ j < k
              /\ \E c \in Stops(sent, sent[j].index) : j < c /\ c < k

\* a stream was finalized in which the upstream closed one block and left
\* another open
C2_FinalizationClosedOpenBlock ==
    /\ spos = "done"
    /\ \E k \in 1..Len(frames) : frames[k].kind = "tool_end"
    /\ \E i \in 1..Len(blockStates) :
          /\ blockStates[i].type = "tool_use"
          /\ \A k \in 1..Len(frames) :
                ~(frames[k].kind = "tool_end" /\ frames[k].id = blockStates[i].id)
    /\ Positions(sent, "message_delta") # { }

(***************************************************************************)
(* Request handlers: properties                                            *)
(***************************************************************************)
\* whether a tool_use block was sent to the client
ToolUseEmitted ==
    IF reqStream
    THEN \E k \in 1..Len(sent) :
            /\ sent[k].type = "content_block_start"
            /\ blockStates[sent[k].index + 1].type = "tool_use"
    ELSE \E k \in 1..Len(httpResponse.content) : httpResponse.content[k] = "tool_use"

\* C11: the stop reason reported with a finished message is tool_use if a
\* tool-use block was emitted, otherwise max_tokens if the upstream reported
\* max_tokens, otherwise end_turn
C11_StopReason ==
    spos = "done" =>
        stopReason = IF ToolUseEmitted THEN "tool_use"
                     ELSE IF maxTokensReported THEN "max_tokens"
                     ELSE "end_turn"

\* a non-streaming message was answered whose upstream body reported
\* max_tokens and held no tool use
C11_MaxTokensNonStream ==
    /\ spos = "done"
    /\ ~reqStream
    /\ maxTokensReported
    /\ ~ToolUseEmitted
    /\ httpResponse.status = 200

\* C12: in streaming mode, when the translator fails or the upstream answers
\* non-200, a JSON error is answered and no SSE event is written; SSE events
\* are written only after the upstream call succeeded
C12_NoSSEBeforeUpstreamSuccess ==
    reqStream =>
        /\ spos = "http_error" =>
              /\ sent = << >>
              /\ httpResponse.status >= 400
              /\ httpResponse.code # ""
        /\ sent # << >> =>
              /\ httpResponse = NoResponse
              /\ spos \in { "process", "done", "errored", "aborted" }

\* a streaming request was answered with the status of the upstream
C12_StreamUpstreamFailure ==
    /\ reqStream
    /\ spos = "http_error"
    /\ httpResponse.status = 429
    /\ sent = << >>

\* C13: an upstream error or exception frame makes the proxy emit an SSE
\* error event followed by message_stop, and nothing after them
C13_ErrorTerminatesStream ==
    /\ \A k \in 1..Len(sent) : sent[k].type = "error" =>
          /\ k = Len(sent) - 1
          /\ sent[k + 1].type = "message_stop"
    /\ \A k \in 1..Len(frames) : frames[k].kind = "error" =>
          /\ k = Len(frames)
          /\ spos = "errored"
          /\ Len(sent) >= 3
          /\ sent[Len(sent) - 1].type = "error"

\* an error frame arrived while a block was open
C13_ErrorInsideOpenBlock ==
    /\ spos = "errored"
    /\ \E i \in 1..Len(blockStates) : ~blockStates[i].closed
    /\ sent[Len(sent)].type = "message_stop"
    /\ Len(frames) >= 3

\* C15: a model_not_found failure of the translator is answered 400, every
\* other failure of the translator 500, in both modes
C15_TranslatorFailureStatus ==
    spos = "http_error" =>
        /\ execOutcome.kind = "model_not_found" => httpResponse.status = 400
        /\ execOutcome.kind = "build_error" => httpResponse.status = 500

\* a streaming request whose translation failed was answered 502
C15_StreamBuildErrorBadGateway ==
    /\ reqStream
    /\ spos = "http_error"
    /\ execOutcome.kind = "build_error"
    /\ httpResponse = Response(502, "internal_error", << >>)

\* C16: an upstream 403 is answered 403 with code forbidden, an upstream 429
\* is answered 429 with code rate_limited, in both modes
C16_ForbiddenAndRateLimited ==
    (spos = "http_error" /\ execOutcome.kind = "upstream"
        /\ execOutcome.readable /\ ~execOutcome.mapped) =>
        /\ execOutcome.status = 403 => httpResponse = Response(403, "forbidden", << >>)
        /\ execOutcome.status = 429 => httpResponse = Response(429, "rate_limited", << >>)

\* a non-streaming request met an upstream 429 and was answered 500 cw_error
C16_RateLimitedAnsweredCwError ==
    /\ ~reqStream
    /\ spos = "http_error"
    /\ execOutcome = Outcome("upstream", 429, TRUE, FALSE)
    /\ httpResponse = Response(500, "cw_error", << >>)

\* AuthMiddleware answers request r 401 in this step
AuthFails(r) == response'[r] = 401 /\ response[r] # 401

\* request r arrives in this step
Arrives(r) == pc[r] = "idle" /\ pc'[r] # "idle"

\* a request without a token in its headers, and one whose exchange fails, is
\* answered 401 and goes no further than the middleware; with both headers
\* present the x-api-key is the credential
AuthFailureAnswered ==
    \A r \in Requests :
        /\ (Arrives(r) /\ headers'[r].xApiKey = << >>
               /\ ~HasPrefix(headers'[r].authorization, Bearer)) => AuthFails(r)
        /\ (pc[r] = "exchange" /\ pc'[r] = "done") => AuthFails(r)
        /\ AuthFails(r) => pc'[r] = "done"
        /\ (pc[r] = "done" /\ response[r] = 401) => pc'[r] \in {"done", "idle"}
        /\ (Arrives(r) /\ headers'[r].xApiKey # << >>)
              => cred'[r] = headers'[r].xApiKey

\* every step of the token manager obeys AuthFailureAnswered
AuthFailureAnsweredAlways == [][AuthFailureAnswered]_vars

\* the step that answers 401 leaves no entry for the request's credential
NoEntryAfterAuthFailure ==
    \A r \in Requests :
        (AuthFails(r) /\ cred'[r] # NoToken)
            => sha256Hash(cred'[r]) \notin DOMAIN tokenMap'

\* C14: a request with neither an x-api-key nor a Bearer Authorization header,
\* or whose first-use exchange fails, is answered 401, never reaches a route
\* handler and leaves the token cache without an entry for its credential;
\* with both headers present the x-api-key value is the credential used
C14_Unauthenticated ==
    [][AuthFailureAnswered /\ NoEntryAfterAuthFailure]_vars

\* a request missed the cache, its exchange failed and it was answered 401,
\* while the exchange of another request put the credential into the cache
C14_EntryDespiteFailedExchange ==
    \E r \in Requests :
        /\ pc[r] = "done"
        /\ response[r] = 401
        /\ cred[r] # NoToken
        /\ sha256Hash(cred[r]) \in DOMAIN tokenMap

\* the last message carries no text, no image and no tool_result
LastMessageEmpty ==
    /\ Len(anthropicReq.Messages) > 0
    /\ lastMessage.Text = << >>
    /\ lastMessage.Images = 0
    /\ lastMessage.ToolResults = << >>

\* C17: BuildCodeWhispererRequest returns an error whenever the last message
\* carries no text, no image and no tool_result and the request declares no
\* tools, with a system prompt or without one
C17_EmptyContentRejected ==
    (bpc \in {"ok", "error"} /\ LastMessageEmpty /\ anthropicReq.Tools = << >>)
        => bpc = "error"

\* a request with a system prompt and an empty last message was built
C17_SystemPromptOnlyBuilt ==
    /\ bpc = "ok"
    /\ LastMessageEmpty
    /\ anthropicReq.Tools = << >>
    /\ anthropicReq.System # << >>
    /\ cwReq.Content = << "<system_mode>", "s", "</system_mode>", "\n", "\n" >>

\* the credential a cache key was computed from
CredentialOf(hash) == hash[2]

\* RefreshAllTokens calls a refresh endpoint in this step
RefresherCalls == rpc = "loop" /\ rpc' = "apply"

\* RefreshAllTokens applies a failed call in this step
FailedApplyStep == rpc = "apply" /\ rpc' # "apply" /\ newToken = 0

\* C21: a RefreshAllTokens run calls the refresh endpoint once for each entry
\* of its snapshot, with the refresh token and the kind stored for that
\* entry's credential; a success changes only the access token and the
\* last-refresh time of the entry, a failure deletes the entry
C21_RefresherFrame ==
    [][/\ (rpc = "snapshot" /\ rpc' # "snapshot") => todo' = DOMAIN tokenMap
       /\ RefresherCalls =>
             /\ cur' \in todo
             /\ LET p == ParseToken(CredentialOf(cur')) IN
                refreshCall' = Call(p.tokenType, p.clientID, p.clientSecret,
                                    p.refreshToken)
       /\ (rpc = "apply" /\ rpc' # "apply") =>
             /\ todo' = todo \ {cur}
             /\ rpc' = "idle" <=> todo' = {}
       /\ ApplyStep =>
             /\ tokenMap' = tokenMap
             /\ \A p \in DOMAIN heap :
                   heap'[p] = IF cur \in DOMAIN tokenMap /\ p = tokenMap[cur]
                              THEN [heap[p] EXCEPT !.AccessToken = newToken,
                                                   !.LastRefresh = tick]
                              ELSE heap[p]
       /\ FailedApplyStep =>
             /\ cur \notin DOMAIN tokenMap'
             /\ \A h \in DOMAIN tokenMap \ {cur} :
                   h \in DOMAIN tokenMap' /\ tokenMap'[h] = tokenMap[h]
             /\ heap' = heap]_vars

\* the refresher has replaced the access token of an AmazonQ entry, whose
\* client id, client secret and refresh token are those of its credential
C21_AmazonQEntryRefreshed ==
    \E h \in DOMAIN tokenMap :
        LET e == heap[tokenMap[h]]
            p == ParseToken(CredentialOf(h)) IN
        /\ rpc = "idle"
        /\ tick > 0
        /\ e.AccessToken # tokenMap[h]
        /\ e.TokenType = "AmazonQ"
        /\ e.ClientID = p.clientID /\ e.ClientSecret = p.clientSecret
        /\ e.RefreshToken = p.refreshToken

\* the lookup of request r finds an entry in this step
HitLookup(r) ==
    pc[r] = "check" /\ pc'[r] # "check" /\ sha256Hash(cred[r]) \in DOMAIN tokenMap

\* GetOrRefreshToken returns from a cache hit in this step
HitReturn(r) == pc[r] = "return" /\ pc'[r] # "return"

\* C22: when the cache holds an entry for the credential, GetOrRefreshToken
\* returns the access token that entry holds, calls no refresh endpoint and
\* leaves the cache as it is, whatever the entry's last-refresh time
C22_CacheHit ==
    [][\A r \in Requests :
          /\ HitLookup(r) =>
                /\ pc'[r] = "return"
                /\ cached'[r] = tokenMap[sha256Hash(cred[r])]
          /\ HitReturn(r) =>
                /\ pc'[r] = "handler"
                /\ accessToken'[r] = heap[cached[r]].AccessToken
          /\ (HitLookup(r) \/ HitReturn(r)) =>
                /\ tokenMap' = tokenMap /\ heap' = heap
                /\ issued' = issued /\ calls' = calls
                /\ refreshCall' = refreshCall]_vars

\* a request got the token of an entry that was last refreshed in an earlier
\* window, and no refresh endpoint was called for its credential since
C22_StaleEntryReturned ==
    \E r \in Requests :
        LET h == sha256Hash(cred[r]) IN
        /\ pc[r] = "handler"
        /\ h \in DOMAIN tokenMap
        /\ accessToken[r] = heap[tokenMap[h]].AccessToken
        /\ heap[tokenMap[h]].LastRefresh < tick
        /\ calls[h] = 0
        /\ exchanged[r] = 0

\* the messages the history is built from: all but the last, and the last as
\* well when it is an assistant message
HistoryMessages ==
    SubSeq(anthropicReq.Messages, 1, historyEndIndex)

\* the runs of user messages among msgs: each run that an assistant message
\* follows, with that message, and the run left at the end (ok: it is paired
\* with the synthetic turn "OK"); messages of other roles are passed over
RECURSIVE Runs(_, _)
Runs(msgs, run) ==
    IF msgs = << >>
    THEN IF run = << >> THEN << >>
         ELSE << [users |-> run, ok |-> TRUE, assistant |-> << >>] >>
    ELSE LET h == Head(msgs) IN
         IF h.Role = "user" THEN Runs(Tail(msgs), Append(run, h))
         ELSE IF h.Role = "assistant" /\ run # << >>
         THEN << [users |-> run, ok |-> FALSE, assistant |-> h.Text] >>
                 \o Runs(Tail(msgs), << >>)
         ELSE Runs(Tail(msgs), run)

\* the texts of a run, joined by newline
NonEmpty(t) == t # << >>

RunText(users) ==
    Join(SelectSeq([i \in 1..Len(users) |-> users[i].Text], NonEmpty))

\* the tool results and the images of a run, in message order
RECURSIVE RunToolResults(_)
RunToolResults(users) ==
    IF users = << >> THEN << >>
    ELSE Head(users).ToolResults \o RunToolResults(Tail(users))

RECURSIVE RunImages(_)
RunImages(users) ==
    IF users = << >> THEN 0 ELSE Head(users).Images + RunImages(Tail(users))

IsPrefix(a, b) == Len(a) <= Len(b) /\ SubSeq(b, 1, Len(a)) = a

\* a history was built
HistoryBuilt ==
    bpc = "ok" /\ (Len(anthropicReq.Messages) > 1 \/ Len(anthropicReq.Tools) > 0)

\* the history has one user entry per run, each followed by the assistant
\* turn of the run, or by "OK" for the run left at the end
HistoryPairsRuns(runs) ==
    /\ Len(history) = 2 * Len(runs)
    /\ \A k \in 1..Len(runs) :
          /\ history[2 * k - 1].kind = "user"
          /\ history[2 * k].kind = "assistant"
          /\ IF runs[k].ok
             THEN history[2 * k].Content = << "OK" >> /\ history[2 * k].ToolUses = << >>
             ELSE IsPrefix(runs[k].assistant, history[2 * k].Content)

\* C23, as the code has it: a run of user messages becomes one history-user
\* entry paired with the assistant turn that follows it, or with "OK" at the
\* end of the loop; its text is the texts of the run joined by newline, and
\* empty when a message of the run carries a tool_result; a last message from
\* the user is the current message and gets no "OK"
C23_RunsMergedTextBlankedByToolResults ==
    HistoryBuilt =>
        LET runs == Runs(HistoryMessages, << >>) IN
        /\ HistoryPairsRuns(runs)
        /\ \A k \in 1..Len(runs) :
              history[2 * k - 1].Content =
                 IF RunToolResults(runs[k].users) # << >> THEN << >>
                 ELSE RunText(runs[k].users)

\* C23: each maximal run of consecutive user messages that an assistant
\* message follows becomes one history-user entry whose text is the run's
\* texts joined by newline, paired with that assistant turn; the user
\* messages left at the end of the loop become one entry paired with "OK";
\* a last message from the user is the current message and gets no "OK"
C23_RunsMergedTextJoined ==
    HistoryBuilt =>
        LET runs == Runs(HistoryMessages, << >>) IN
        /\ HistoryPairsRuns(runs)
        /\ \A k \in 1..Len(runs) :
              history[2 * k - 1].Content = RunText(runs[k].users)

\* a run with a text and a tool_result, left at the end of the loop before a
\* current message from the user, was merged into an entry with no text and
\* paired with "OK"
C23_TextBlankedAndOrphanOK ==
    /\ HistoryBuilt
    /\ lastMessage.Role = "user"
    /\ Len(history) = 2
    /\ history[1].ToolResults # << >>
    /\ history[1].Images > 0
    /\ history[1].Content = << >>
    /\ history[2].Content = << "OK" >>

\* C24: the images of a merged history-user entry are those of all buffered
\* user messages, and its tool results are those of all of them, messages
\* without text included
C24_ImagesAndToolResultsUnion ==
    HistoryBuilt =>
        LET runs == Runs(HistoryMessages, << >>) IN
        Len(history) = 2 * Len(runs) =>
           \A k \in 1..Len(runs) :
              /\ history[2 * k - 1].Images = RunImages(runs[k].users)
              /\ history[2 * k - 1].ToolResults = RunToolResults(runs[k].users)

\* a buffered user message with an image and no text was merged: the entry
\* has its text-bearing neighbour's tool results but not its image
C24_ImageOfTextlessMessageDropped ==
    /\ HistoryBuilt
    /\ Len(history) >= 2
    /\ LET runs == Runs(HistoryMessages, << >>) IN
       /\ Len(runs) >= 1
       /\ RunImages(runs[1].users) > history[1].Images
       /\ history[1].ToolResults = RunToolResults(runs[1].users)
       /\ history[1].ToolResults # << >>

(***************************************************************************)
(* Tool schema cleaning: properties                                        *)
(***************************************************************************)
First20_Last20(name) ==
    [i \in 1..41 |-> IF i <= 20 THEN name[i]
                     ELSE IF i = 21 THEN 95 ELSE name[Len(name) - 41 + i]]

First30_param(name) ==
    [i \in 1..36 |-> IF i <= 30 THEN name[i] ELSE ParamSuffix[i - 30]]

\* The renaming as the claim words it.
Renamed(name) ==
    IF Len(name) <= 64 THEN name
    ELSE IF Len(name) > 80 THEN First20_Last20(name) ELSE First30_param(name)

IsName(e) == e.t = "string" /\ e.v # << >>

RenamedRequired(required) ==
    LET names == SelectSeq(required, IsName)
    IN  [i \in 1..Len(names) |-> JString(Renamed(names[i].v))]

\* A call that succeeded on a schema with a properties object.
CleanedWithProperties ==
    /\ cleanPc = "done"
    /\ ~cleanResult.err
    /\ HasMap(toolParams.v, "properties")

DeclaredProperties == toolParams.v["properties"].v

ReturnedProperties == cleanResult.params.v["properties"].v

\* A call that succeeded on a schema with a required list.
CleanedWithRequired ==
    /\ cleanPc = "done"
    /\ ~cleanResult.err
    /\ HasArray(toolParams.v, "required")

UnrenamedRequired(required) == SelectSeq(required, IsName)

\* C26: cleanAndValidateToolParameters keeps a property key of at most 64
\* bytes verbatim, turns a key of more than 80 bytes into its first 20 bytes,
\* "_" and its last 20 bytes, and a key of 65 to 80 bytes into its first 30
\* bytes and "_param"; when the schema has a properties object the names of
\* the required list are renamed the same way, so a required name that named
\* a property still names one; when it has none they are left as they are.
C26_LongNamesRenamed ==
    /\ CleanedWithRequired /\ ~HasMap(toolParams.v, "properties") =>
           cleanResult.params.v["required"].v =
               UnrenamedRequired(toolParams.v["required"].v)
    /\ CleanedWithProperties =>
           /\ \A k \in DOMAIN DeclaredProperties :
                  Len(k) <= 64 => k \in DOMAIN ReturnedProperties
           /\ \A k \in DOMAIN DeclaredProperties :
                  Len(k) > 80 => First20_Last20(k) \in DOMAIN ReturnedProperties
           /\ \A k \in DOMAIN DeclaredProperties :
                  Len(k) \in 65..80 => First30_param(k) \in DOMAIN ReturnedProperties
           /\ DOMAIN ReturnedProperties = { Renamed(k) : k \in DOMAIN DeclaredProperties }
           /\ HasArray(toolParams.v, "required") =>
                  /\ HasArray(cleanResult.params.v, "required")
                  /\ cleanResult.params.v["required"].v =
                         RenamedRequired(toolParams.v["required"].v)
                  /\ \A i \in DOMAIN toolParams.v["required"].v :
                         LET e == toolParams.v["required"].v[i]
                         IN  IsName(e) /\ e.v \in DOMAIN DeclaredProperties =>
                                 /\ Renamed(e.v) \in DOMAIN ReturnedProperties
                                 /\ \E j \in DOMAIN cleanResult.params.v["required"].v :
                                        cleanResult.params.v["required"].v[j] =
                                            JString(Renamed(e.v))

\* C26 as worded: the names of the required list are renamed whatever the
\* schema holds under properties.
C26_RequiredAlwaysRenamed ==
    CleanedWithRequired =>
        cleanResult.params.v["required"].v =
            RenamedRequired(toolParams.v["required"].v)

\* Both renamings applied: a 65-byte and an 81-byte property, both required.
C26_BothRenamingsApplied ==
    /\ CleanedWithProperties
    /\ DOMAIN DeclaredProperties = { Name65, Name81 }
    /\ HasArray(toolParams.v, "required")
    /\ toolParams.v["required"].v = << JString(Name65), JString(Name81) >>
    /\ Len(First30_param(Name65)) = 36
    /\ DOMAIN ReturnedProperties = { First30_param(Name65), First20_Last20(Name81) }
    /\ cleanResult.params.v["required"].v =
           << JString(First30_param(Name65)), JString(First20_Last20(Name81)) >>

(***************************************************************************)
(* Request translator: tool schemas                                        *)
(***************************************************************************)
IsStringArray(json) ==
    json.t = "array" /\ \A i \in DOMAIN json.v : json.v[i].t = "string"

\* A schema in the shape cleanAndValidateToolParameters returns.
CleanedSchema(schema) ==
    /\ schema.t = "object"
    /\ DOMAIN schema.v \cap NonPortableKeys = {}
    /\ "type" \in DOMAIN schema.v
    /\ schema.v["type"].t = "string"
    /\ schema.v["type"].v = "object"
    /\ HasMap(schema.v, "properties")
    /\ "required" \in DOMAIN schema.v => IsStringArray(schema.v["required"])

\* C25: every tool input schema in a request BuildCodeWhispererRequest built
\* has none of the keys additionalProperties, strict, $schema, $id, $ref,
\* definitions, $defs, has type object and a properties object, and its
\* required field, when present, is a string array.
C25_ToolSchemasCleaned ==
    bpc = "ok" => \A i \in 1..Len(cwReq.Tools) : CleanedSchema(cwReq.Tools[i].InputSchema)

\* A built request that carries the declared schema as the client sent it.
C25_RawSchemaSent ==
    /\ bpc = "ok"
    /\ anthropicReq.Tools = << Tool("read", RawSchema) >>
    /\ Len(cwReq.Tools) = 1
    /\ cwReq.Tools[1].InputSchema = RawSchema
    /\ "$schema" \in DOMAIN cwReq.Tools[1].InputSchema.v
    /\ ~CleanedSchema(cwReq.Tools[1].InputSchema)

\* What the tools loop does: the schema of every tool sent is the declared
\* schema of the tool of that name.
ToolSchemasPassedThrough ==
    bpc = "ok" =>
        \A i \in 1..Len(cwReq.Tools) :
            \E j \in 1..Len(anthropicReq.Tools) :
                /\ anthropicReq.Tools[j].Name = cwReq.Tools[i].Name
                /\ anthropicReq.Tools[j].InputSchema = cwReq.Tools[i].InputSchema

(***************************************************************************)
(* Response writer adapter: properties                                     *)
(***************************************************************************)
WriteStep == writes' = writes + 1

\* the chunk given to the call of Write that the step is
Chunk == wrote'.chunk

\* the first-write detection of the step finds a stream Content-Type
DetectedByContentType == ByteLen(rwBody) = 0 /\ StreamContentType(contentType)

\* C29: Write appends the chunk to the buffer while the adapter is not
\* streaming; it switches to streaming on a chunk that looks like SSE,
\* whatever the Content-Type, and on a chunk that takes the buffered size
\* over 2 MiB; once streaming, the adapter stays streaming and its buffer
\* never grows again
C29_BuffersUntilStreaming ==
    [][ /\ isStreaming => isStreaming' /\ rwBody' = rwBody
        /\ WriteStep =>
              /\ ~isStreaming' => rwBody' = rwBody \o Chunk /\ written' = written
              /\ (~isStreaming /\ ~DetectedByContentType /\ ~looksLikeSSEChunk(Chunk)
                    /\ ByteLen(rwBody) + ByteLen(Chunk) <= 2 * 1024 * 1024)
                  => ~isStreaming'
              /\ (~isStreaming /\ looksLikeSSEChunk(Chunk)) => isStreaming'
              /\ (~isStreaming /\ ByteLen(rwBody) + ByteLen(Chunk) > 2 * 1024 * 1024)
                  => isStreaming'
              /\ isStreaming' => rwBody' = << >> \/ rwBody' = rwBody
      ]_vars

\* two MiB were buffered under a JSON Content-Type and one more byte switched
\* the adapter to streaming
C29_SwitchedAtLimit ==
    /\ isStreaming
    /\ contentType = << "application/json" >>
    /\ wrote.chunk = << "x" >>
    /\ rwBody = << >>
    /\ written = << "MiB", "MiB", "x" >>

(***************************************************************************)
(* ParseToken: properties                                                  *)
(***************************************************************************)
Colons(s) == { i \in 1..Len(s) : s[i] = ":" }

\* the positions of the first two ':' of s
FirstTwoColons(s) ==
    { c \in Colons(s) \X Colons(s) :
        /\ c[1] < c[2]
        /\ \A k \in Colons(s) : k = c[1] \/ k >= c[2] }

\* C30: ParseToken classifies a credential as AmazonQ exactly when it has two
\* ':' with a non-empty text before the first and a non-empty text after the
\* second, and then returns the text before the first ':' as client id, the
\* text between the two as client secret (empty or not) and all that follows
\* the second, further ':' included, as refresh token; any other credential
\* is Kiro, with the whole string as refresh token
C30_ParseTokenClassifies ==
    parsed # NotParsed =>
        IF \E c \in FirstTwoColons(tokenText) : c[1] > 1 /\ c[2] < Len(tokenText)
        THEN \A c \in FirstTwoColons(tokenText) :
                /\ parsed.tokenType = "AmazonQ"
                /\ parsed.clientID = SubSeq(tokenText, 1, c[1] - 1)
                /\ parsed.clientSecret = SubSeq(tokenText, c[1] + 1, c[2] - 1)
                /\ parsed.refreshToken = SubSeq(tokenText, c[2] + 1, Len(tokenText))
        ELSE /\ parsed.tokenType = "Kiro"
             /\ parsed.clientID = << >>
             /\ parsed.clientSecret = << >>
             /\ parsed.refreshToken = tokenText

\* an AmazonQ credential with an empty secret and a ':' in its refresh token
C30_EmptySecretColonKept ==
    /\ tokenText = << "a", ":", ":", "b", ":" >>
    /\ parsed.tokenType = "AmazonQ"
    /\ parsed.clientID = << "a" >>
    /\ parsed.clientSecret = << >>
    /\ parsed.refreshToken = << "b", ":" >>

\* C40: cleanAndValidateToolParameters loses no property: no two property
\* keys of the schema are renamed to one key, so the cleaned schema has as
\* many properties as the schema given
C40_NoPropertyLost ==
    CleanedWithProperties =>
        /\ \A k1, k2 \in DOMAIN DeclaredProperties :
               k1 # k2 => CleanedName(k1) # CleanedName(k2)
        /\ Cardinality(DOMAIN ReturnedProperties) =
               Cardinality(DOMAIN DeclaredProperties)

\* two keys of 81 bytes that differ in their 25th byte are one key afterwards
C40_TwoLongKeysMerged ==
    /\ CleanedWithProperties
    /\ DOMAIN DeclaredProperties = { Name81, Name81b }
    /\ DOMAIN ReturnedProperties = { First20_Last20(Name81) }
    /\ ReturnedProperties[First20_Last20(Name81)] \in
           { ParamDef(Name81), ParamDef(Name81b) }

\* a is b with some of its elements left out
RECURSIVE IsSubsequence(_, _)
IsSubsequence(a, b) ==
    IF a = << >> THEN TRUE
    ELSE IF b = << >> THEN FALSE
    ELSE IF Head(a) = Head(b) THEN IsSubsequence(Tail(a), Tail(b))
    ELSE IsSubsequence(a, Tail(b))

\* C37: every byte passed to Write reaches the wrapped writer at most once
\* and in the order of the writes, whatever Write and Flush calls are made:
\* what the wrapped writer got is what Write was given with, at most, the
\* bytes of failed writes left out
C37_WrittenAtMostOnceInOrder == IsSubsequence(written, given)

\* one byte was given to Write and two Flush calls wrote it twice
C37_SecondFlushWritesAgain ==
    /\ ~isStreaming
    /\ flushes = 2
    /\ given = << "x" >>
    /\ rwBody = << "x" >>
    /\ written = << "x", "x" >>

\* The order at the switch: a Write that switches to streaming passes the
\* buffered bytes to the wrapped writer before its own chunk.
BufferedBeforeSwitchingChunk ==
    [][ (WriteStep /\ ~isStreaming /\ isStreaming' /\ ~wrote'.err
            /\ ~DetectedByContentType) =>
            written' = written \o rwBody \o Chunk
      ]_vars

\* RefreshAllTokens applies the result of a call in this step
AppliesResult == rpc = "apply" /\ rpc' # "apply"

\* the cache holds, under the hash whose result is applied, an entry that is
\* not the one of the snapshot
EntryNewerThanSnapshot ==
    /\ rpc = "apply"
    /\ cur \in DOMAIN tokenMap
    /\ tokenMap[cur] # tokens[cur]

\* C33: RefreshAllTokens applies the outcome of a call to the entry of its
\* snapshot only: an entry that GetOrRefreshToken stored under the same hash
\* after the snapshot is neither deleted nor given another access token
C33_OnlySnapshotEntryTouched ==
    [][ (AppliesResult /\ EntryNewerThanSnapshot) =>
            /\ cur \in DOMAIN tokenMap'
            /\ tokenMap'[cur] = tokenMap[cur]
            /\ heap'[tokenMap'[cur]].AccessToken = heap[tokenMap[cur]].AccessToken
      ]_vars

\* a refresh call failed for a snapshot entry that was since invalidated and
\* replaced by a request's fresh exchange
C33_FailedCallMeetsNewEntry ==
    /\ EntryNewerThanSnapshot
    /\ newToken = 0
    /\ heap[tokenMap[cur]].AccessToken # heap[tokens[cur]].AccessToken

\* worker w is about to finish a block on which Get reported a miss, and the
\* cache holds an entry for the block that another request created meanwhile
CreatedMeanwhile(w) ==
    /\ wpc[w] = "miss"
    /\ EphemeralBlock(w)
    /\ CurrentHash(w) \in DOMAIN entries
    /\ \E v \in Workers \ {w} :
           result[v].CacheCreationTokens >= BlockTokens(Head(blocks[w]))

\* C34: of two requests that process the same ephemeral block concurrently
\* against a cache without an entry for it, at most one counts the block as
\* cache creation: the one that finds the entry created meanwhile counts it
\* as a cache read
C34_OneCreationPerBlock ==
    [][ \A w \in Workers :
          (MissStep(w) /\ CreatedMeanwhile(w)) =>
              /\ result'[w].CacheCreationTokens = result[w].CacheCreationTokens
              /\ result'[w].CacheReadTokens =
                    result[w].CacheReadTokens + objects[entries[CurrentHash(w)]].Tokens
      ]_vars

\* both workers have counted the system block "a" (3 tokens) as created
C34_BothCountCreation ==
    /\ \A w \in Workers :
          /\ wpc[w] = "block"
          /\ blocks[w] = << >>
          /\ result[w] = [CacheReadTokens |-> 0, CacheCreationTokens |-> 3]
    /\ now = 0
    /\ Cardinality(DOMAIN entries) = 1

\* Get of worker w found the entry it read expired, and the cache now holds
\* another, unexpired entry under the same hash
ReplacedBeforeDelete(w) ==
    /\ wpc[w] = "get_delete"
    /\ CurrentHash(w) \in DOMAIN entries
    /\ entries[CurrentHash(w)] # entry[w]
    /\ ~Expired(entries[CurrentHash(w)])

\* C35: the lazy deletion of Get removes only the expired entry Get examined:
\* an unexpired entry that a concurrent Set stored under the same hash after
\* Get's expiry test is still in the cache when Get returns
C35_LazyDeleteSparesNewEntry ==
    [][ \A w \in Workers :
          (DeleteStep(w) /\ ReplacedBeforeDelete(w)) =>
              /\ CurrentHash(w) \in DOMAIN entries'
              /\ entries'[CurrentHash(w)] = entries[CurrentHash(w)]
      ]_vars

\* Get is about to delete the hash while another request's new entry is
\* stored under it
C35_DeleteMeetsNewEntry ==
    \E w \in Workers :
        /\ ReplacedBeforeDelete(w)
        /\ Expired(entry[w])
        /\ objects[entries[CurrentHash(w)]].ExpTime > objects[entry[w]].ExpTime

(***************************************************************************)
(* C36: termination of the parse loop                                      *)
(***************************************************************************)

\* the buffers the loop of parseStreamWithBuffer starts its first k
\* iterations on, from buffer buf
RECURSIVE LoopBuffers(_, _)
LoopBuffers(buf, k) ==
    IF k = 0 THEN {}
    ELSE {buf} \cup (IF Iteration(buf).leave THEN {}
                     ELSE LoopBuffers(Iteration(buf).buffer, k - 1))

\* the buffers ParseStream can run the loop on next: the kept buffer
\* followed by any next part of the body
NextLoopInputs ==
    { buffer \o SubSeq(input, fed + 1, fed + n) : n \in 1..(Len(input) - fed) }

\* C36: on every buffer content and every next part of the body, each
\* iteration of the parse loop either leaves the loop or leaves a buffer
\* shorter by at least one byte, so that the loop ends within as many
\* iterations as the buffer has bytes, plus the one that leaves
C36_EachIterationConsumesOrLeaves ==
    \A b0 \in NextLoopInputs :
       \A b \in LoopBuffers(b0, Len(b0) + 1) :
          Iteration(b).leave \/ Len(Iteration(b).buffer) < Len(b)

\* C36 witness: a single call of ParseStream on the whole body has run three
\* iterations: one consumed a frame that failed to parse, one consumed a
\* frame that gave a message, and the third found the buffer empty and left
C36_TwoFramesConsumedThenLeft ==
    /\ chunks = 1
    /\ fed = Len(input)
    /\ errorCount = 1
    /\ Len(out) = 1
    /\ buffer = << >>

(***************************************************************************)
(* Chat trigger type: properties                                           *)
(***************************************************************************)
\* the choice a tool_choice names, in each of its representations: the
\* string itself, the string under the key "type", the Type of a ToolChoice
NamedChoice(tc) ==
    IF tc.t \in { "string", "pointer", "struct" } THEN tc.Type
    ELSE IF tc.t = "map" /\ tc.typeKind = "string" THEN tc.Type
    ELSE ""

\* C31 (as stated): the chat trigger type of a built request is AUTO exactly
\* when the request declares at least one tool and its tool_choice, in
\* whichever representation, is any or tool; it is MANUAL in every other case
C31_AutoExactlyWhenToolForced ==
    chatTriggerType # "" =>
       /\ chatTriggerType \in { "AUTO", "MANUAL" }
       /\ chatTriggerType = "AUTO" <=>
             /\ Len(triggerReq.Tools) > 0
             /\ NamedChoice(triggerReq.ToolChoice) \in { "any", "tool" }

\* a request that declares a tool and whose tool_choice is the string "any"
\* has been given the trigger type MANUAL
C31_StringAnyIsManual ==
    /\ Len(triggerReq.Tools) > 0
    /\ triggerReq.ToolChoice = Choice("string", "string", "any")
    /\ chatTriggerType = "MANUAL"

\* with tool_choice a map or a *types.ToolChoice, the trigger type is AUTO
\* exactly when a tool is declared and the type is any or tool
AutoForMapAndPointer ==
    (chatTriggerType # "" /\ triggerReq.ToolChoice.t \in { "map", "pointer", "nil" }) =>
       (chatTriggerType = "AUTO" <=>
           /\ Len(triggerReq.Tools) > 0
           /\ NamedChoice(triggerReq.ToolChoice) \in { "any", "tool" })

(***************************************************************************)
(* Token estimator: properties                                             *)
(***************************************************************************)
\* C32 (as stated): a tokenizer failure, at initialisation or while encoding,
\* never aborts the handling of a request: no request ends in a panic, and
\* an answered request has the count of the encoding or, as the fallback, the
\* number of code points of its text
C32_TokenizerFailureNeverAborts ==
    /\ estPc # "panicked"
    /\ estPc = "answered" =>
          tokenCount \in (0..MaxIds) \cup { RuneCount(estText) }

\* the initialisation of the tokenizer has failed and the request that ran
\* it has panicked in NewTokenEstimator, with no count
C32_InitFailurePanics ==
    /\ initOnce
    /\ initErr
    /\ estPc = "panicked"
    /\ tokenCount = -1

\* once the initialisation has failed, no later request is counted
FailedInitIsKept ==
    [][initErr => initErr' /\ estPc' # "count" /\ estPc' # "answered"]_vars

EndsWith(s, t) ==
    Len(s) >= Len(t) /\ SubSeq(s, Len(s) - Len(t) + 1, Len(s)) = t

\* the text of the last message is part of the content of the current
\* message
LastUsedAsCurrent ==
    /\ processMessageContent(lastMessage).text # << >>
    /\ EndsWith(cwReq.Content, processMessageContent(lastMessage).text)

\* the turn of the history loop on the last message of the request
LoopTurnOnLast ==
    /\ bpc = "history"
    /\ idx' = idx + 1
    /\ idx' = Len(anthropicReq.Messages)

\* C39 (as stated): a message whose content is used as the content of the
\* current message is not also folded into a history entry, whether the last
\* message has role user or assistant: the history loop leaves the history
\* and the buffer of user messages as they are on that message
C39_CurrentNotFoldedIntoHistory ==
    [][ (LoopTurnOnLast /\ LastUsedAsCurrent) =>
            /\ history' = history
            /\ userMessagesBuffer' = userMessagesBuffer ]_vars

\* a request that ends with an assistant message has been built: the text of
\* that message is the content of the current message and also the content of
\* the last history entry
C39_LastAssistantUsedTwice ==
    /\ bpc = "ok"
    /\ lastMessage.Role = "assistant"
    /\ lastMessage.Text = << "b" >>
    /\ cwReq.Content = << "b" >>
    /\ history # << >>
    /\ history[Len(history)].kind = "assistant"
    /\ history[Len(history)].Content = << "b" >>

\* when the last message has role user the history loop ends before it
LastUserNotInLoop ==
    [][ LoopTurnOnLast => lastMessage.Role = "assistant" ]_vars

====
